---- MODULE Spec2Model ----
(***************************************************************************)
(* StyleSheetParser of RmlUi (Source/Core/StyleSheetParser.cpp): the       *)
(* buffered reader, the declaration reader, the Parse state machine, the   *)
(* selector decomposition and the keyframes post-processing; the event     *)
(* registry of EventSpecification.cpp and the PropertiesIterator.          *)
(*                                                                         *)
(* A String is a sequence of one-character strings.  parse_buffer_pos is   *)
(* the 0-based index of the code: parse_buffer[parse_buffer_pos] is        *)
(* buf[pos + 1] here.                                                      *)
(***************************************************************************)
EXTENDS Integers, Sequences, FiniteSets, TLC

VARIABLES
    input,                \* the bytes of the stream handed to Parse
    chunk,                \* how many bytes the stream delivers per Read at most
    stream_pos,           \* bytes of the stream consumed so far
    parse_buffer,         \* StyleSheetParser::parse_buffer
    parse_buffer_pos,     \* StyleSheetParser::parse_buffer_pos
    line_number,          \* StyleSheetParser::line_number
    pc,                   \* position inside Parse: "start", "loop", "done"
    state,                \* Parse's local State
    token,                \* the token FindToken returned last (NoToken: none yet / 0)
    pre_token_str,        \* the text FindToken gathered before that token
    keyframes_identifier, \* Parse's local keyframes_identifier
    rule_count,           \* Parse's local rule_count, the value returned at "done"
    tree,                 \* the style tree below the node given to Parse
    keyframes,            \* the KeyframesMap given to Parse
    imports,              \* history: the ImportProperties calls Parse made
    log,                  \* history: the warnings passed to Log::Message
    read_locals,          \* the locals of the ReadProperties that ParseProperties runs
    postprocessed,        \* history: how often PostprocessKeyframes ran
    read_comment,         \* ReadCharacter's local comment, when it is run read by read
    specifications,       \* EventSpecification.cpp: static specifications
    type_lookup,          \* EventSpecification.cpp: static type_lookup
    initialized,          \* history: EventSpecificationInterface::Initialize has run
    returned,             \* history: the last call on the registry and what it returned
    style,                \* the range [it_style, it_style_end) given to a PropertiesIterator
    definition,           \* the range [it_definition, it_definition_end) given to it
    it_style,             \* PropertiesIterator::it_style, as entries of style passed
    it_definition,        \* PropertiesIterator::it_definition, as entries of definition passed
    iterated_properties,  \* PropertiesIterator::iterated_properties
    at_end,               \* PropertiesIterator::at_end
    yielded               \* history: the values operator* gave before each operator++

parser_vars == <<input, chunk, stream_pos, parse_buffer, parse_buffer_pos, line_number,
                 pc, state, token, pre_token_str, keyframes_identifier, rule_count,
                 tree, keyframes, imports, log, read_locals, postprocessed>>

event_vars == <<specifications, type_lookup, initialized, returned>>

iterator_vars == <<style, definition, it_style, it_definition, iterated_properties,
                   at_end, yielded>>

vars == <<parser_vars, read_comment, event_vars, iterator_vars>>

\* no event registry and no iterator take part
EventsUnused ==
    /\ specifications = <<>> /\ type_lookup = <<>> /\ initialized = FALSE
    /\ returned = <<>>

IteratorUnused ==
    /\ style = <<>> /\ definition = <<>> /\ it_style = 0 /\ it_definition = 0
    /\ iterated_properties = {} /\ at_end = FALSE /\ yielded = <<>>

-----------------------------------------------------------------------------
(* Characters and strings *)

NL == "\n"
QUOTE_CHAR == "\""
NoChar == "NUL"
NoToken == "NUL"

\* The characters the inputs use, in ASCII order (String's operator< compares bytes).
Ascii == <<NL, " ", QUOTE_CHAR, "#", "%", "*", ",", "-", ".", "/",
           "0", "1", "2", "3", "4", "5", "6", "7", "8", "9", ":", ";", "@",
           "F", "O", "R", "T", "\\", "_",
           "a", "b", "c", "d", "e", "f", "k", "l", "m", "o", "p", "r", "s", "t", "x",
           "y", "{", "}">>

CharCode(c) == CHOOSE i \in 1..Len(Ascii) : Ascii[i] = c

Digits == {"0", "1", "2", "3", "4", "5", "6", "7", "8", "9"}
Lower == {"a", "b", "c", "d", "e", "f", "k", "l", "m", "o", "p", "r", "s", "t", "x", "y"}
Upper == {"F", "O", "R", "T"}

IsSpace(c) == c \in {" ", NL}

Min(a, b) == IF a < b THEN a ELSE b

\* Op applied to the value of v, v being evaluated once (a strict let)
Strict(v, Op(_)) == CHOOSE res \in {Op(y) : y \in {v}} : TRUE

\* String::operator< : lexicographic on bytes
RECURSIVE StrLess(_, _)
StrLess(a, b) ==
    IF b = <<>> THEN FALSE
    ELSE IF a = <<>> THEN TRUE
    ELSE IF a[1] # b[1] THEN CharCode(a[1]) < CharCode(b[1])
    ELSE StrLess(Tail(a), Tail(b))

\* String::Substring(start, length), start 0-based
Substring(s, start, length) ==
    IF start >= Len(s) THEN <<>>
    ELSE SubSeq(s, start + 1, Min(Len(s), start + length))

SubstringFrom(s, start) == Substring(s, start, Len(s))

\* String::ToLower
ToLowerChar(c) ==
    CASE c = "F" -> "f" [] c = "O" -> "o" [] c = "R" -> "r" [] c = "T" -> "t"
      [] OTHER -> c

ToLower(s) == [i \in 1..Len(s) |-> ToLowerChar(s[i])]

\* StringUtilities::StripWhitespace: the text without leading and trailing whitespace
RECURSIVE StripLeft(_)
StripLeft(s) == IF s # <<>> /\ IsSpace(s[1]) THEN StripLeft(Tail(s)) ELSE s

RECURSIVE StripRight(_)
StripRight(s) ==
    IF s # <<>> /\ IsSpace(s[Len(s)]) THEN StripRight(SubSeq(s, 1, Len(s) - 1)) ELSE s

StripWhitespace(s) == StripRight(StripLeft(s))

\* std::sort on a StringList (insertion into a sorted list, one element at a time)
RECURSIVE InsertSorted(_, _)
InsertSorted(x, l) ==
    IF l = <<>> THEN <<x>>
    ELSE IF StrLess(x, l[1]) THEN <<x>> \o l
    ELSE <<l[1]>> \o InsertSorted(x, Tail(l))

RECURSIVE SortStrings(_)
SortStrings(l) ==
    IF l = <<>> THEN <<>>
    ELSE Strict(SortStrings(Tail(l)), LAMBDA sorted : InsertSorted(l[1], sorted))

\* StringUtilities::ExpandString(list, string, delimiter): the delimiter-separated
\* items, each without its surrounding whitespace; an item between two delimiters
\* is kept even when empty, and text pending at the end is added when not empty.
RECURSIVE ExpandLoop(_, _, _, _)
ExpandLoop(s, i, delimiter, item) ==
    IF i > Len(s) THEN (IF StripWhitespace(item) # <<>> THEN <<StripWhitespace(item)>> ELSE <<>>)
    ELSE IF s[i] = delimiter
         THEN <<StripWhitespace(item)>> \o ExpandLoop(s, i + 1, delimiter, <<>>)
         ELSE ExpandLoop(s, i + 1, delimiter, Append(item, s[i]))

ExpandString(s, delimiter) == ExpandLoop(s, 1, delimiter, <<>>)

-----------------------------------------------------------------------------
(* The stream and the buffered reader.  A reader r is the record            *)
(* [buf, pos, spos, line] of parse_buffer, parse_buffer_pos, the stream's   *)
(* position and line_number; `in` and `ck` are the stream's bytes and the   *)
(* size of the chunks it delivers.                                          *)

READ_SIZE == 4092

\* Stream::IsEOS
IsEOS(in, r) == r.spos >= Len(in)

\* Stream::Read(buffer, bytes): up to `bytes` bytes, as many as the stream delivers
StreamRead(in, ck, r, bytes) ==
    SubSeq(in, r.spos + 1, Min(Len(in), r.spos + Min(ck, bytes)))

\* mutation of FillBuffer: what parse_buffer held is kept in front of the bytes read
FillBufferKeepsBuffer(in, ck, r) ==
    IF IsEOS(in, r) THEN [ok |-> FALSE, r |-> r]
    ELSE LET data == StreamRead(in, ck, r, READ_SIZE)
         IN [ok |-> Len(data) > 0,
             r  |-> [r EXCEPT !.buf = @ \o data, !.spos = @ + Len(data)]]

\* StyleSheetParser::FillBuffer
FillBuffer(in, ck, r) ==
    IF IsEOS(in, r) THEN [ok |-> FALSE, r |-> r]
    ELSE LET data == StreamRead(in, ck, r, READ_SIZE)
         IN [ok |-> Len(data) > 0,
             r  |-> [r EXCEPT !.buf = data, !.pos = 0, !.spos = @ + Len(data)]]

\* mutation of AdvanceAndFill: the look-ahead does not refill the buffer
AdvanceNoFill(in, ck, r) == [ok |-> TRUE, r |-> [r EXCEPT !.pos = @ + 1]]

\* parse_buffer_pos++; if (parse_buffer_pos >= parse_buffer.Length()) FillBuffer():
\* [ok, r]
AdvanceAndFill(in, ck, r) ==
    IF r.pos + 1 >= Len(r.buf) THEN FillBuffer(in, ck, [r EXCEPT !.pos = @ + 1])
    ELSE [ok |-> TRUE, r |-> [r EXCEPT !.pos = @ + 1]]

\* mutation of PushBack: the reader stays on the character after the `/`
PushBackNone(r) == r

\* the `/` was not the start of a comment: parse_buffer.Insert(0, '/') when the
\* look-ahead refilled the buffer, parse_buffer_pos-- otherwise
PushBack(r) ==
    IF r.pos = 0 THEN [r EXCEPT !.buf = <<"/">> \o @] ELSE [r EXCEPT !.pos = @ - 1]

RECURSIVE ReadLoop(_, _, _, _)

\* mutation of Newline: the newline is counted and returned like any character
NewlineReturned(in, ck, r, comment) ==
    [ok |-> TRUE, ch |-> NL, r |-> [r EXCEPT !.line = @ + 1]]

\* parse_buffer[parse_buffer_pos] == '\n': line_number++, then parse_buffer_pos++
\* at the end of the loop's body, and the loop goes on
Newline(in, ck, r, comment) ==
    ReadLoop(in, ck, [r EXCEPT !.line = @ + 1, !.pos = @ + 1], comment)

\* StyleSheetParser::ReadCharacter; the result is [ok, ch, r]
ReadLoop(in, ck, reader, in_comment) == Strict(<<reader, in_comment>>, LAMBDA p :
    LET r == p[1]
        comment == p[2]
    IN
    IF r.pos < Len(r.buf)
    THEN LET c == r.buf[r.pos + 1] IN
         IF c = NL
         THEN Newline(in, ck, r, comment)
         ELSE IF comment
         THEN IF c = "*"
              THEN Strict(AdvanceAndFill(in, ck, r), LAMBDA f :
                     IF ~f.ok THEN [ok |-> FALSE, ch |-> NoChar, r |-> f.r]
                     ELSE ReadLoop(in, ck, [f.r EXCEPT !.pos = @ + 1],
                                   f.r.buf[f.r.pos + 1] # "/"))
              ELSE ReadLoop(in, ck, [r EXCEPT !.pos = @ + 1], TRUE)
         ELSE IF c = "/"
         THEN Strict(AdvanceAndFill(in, ck, r), LAMBDA f :
                IF ~f.ok
                THEN [ok |-> TRUE, ch |-> "/", r |-> [f.r EXCEPT !.buf = <<"/">>]]
                ELSE IF f.r.buf[f.r.pos + 1] = "*"
                THEN ReadLoop(in, ck, [f.r EXCEPT !.pos = @ + 1], TRUE)
                ELSE [ok |-> TRUE, ch |-> "/", r |-> PushBack(f.r)])
         ELSE [ok |-> TRUE, ch |-> c, r |-> r]
    ELSE Strict(FillBuffer(in, ck, r), LAMBDA f :
           IF f.ok THEN ReadLoop(in, ck, f.r, comment)
           ELSE [ok |-> FALSE, ch |-> NoChar, r |-> f.r]))

ReadCharacter(in, ck, r) == ReadLoop(in, ck, r, FALSE)

\* StyleSheetParser::FindToken(buffer, "{@}", true); the result is [token, buffer, r]
TOKENS == {"{", "@", "}"}

RECURSIVE FindLoop(_, _, _, _)
FindLoop(in, ck, r, buffer) == Strict(<<ReadCharacter(in, ck, r), buffer>>, LAMBDA p :
    LET rc == p[1] IN
    IF ~rc.ok THEN [token |-> NoToken, buffer |-> p[2], r |-> rc.r]
    ELSE IF rc.ch \in TOKENS
    THEN [token |-> rc.ch, buffer |-> p[2], r |-> [rc.r EXCEPT !.pos = @ + 1]]
    ELSE FindLoop(in, ck, [rc.r EXCEPT !.pos = @ + 1], Append(p[2], rc.ch)))

FindToken(in, ck, r) == FindLoop(in, ck, r, <<>>)

-----------------------------------------------------------------------------
(* Property dictionaries: a PropertyDictionary is a function from property  *)
(* names to values.                                                         *)

EmptyDictionary == <<>>

SetProperty(d, name, value) ==
    [n \in DOMAIN d \cup {name} |-> IF n = name THEN value ELSE d[n]]

GetNumProperties(d) == Cardinality(DOMAIN d)

\* PropertyDictionary::Import(other): every entry of other, over the entries held
Import(d, other) ==
    [n \in DOMAIN d \cup DOMAIN other |-> IF n \in DOMAIN other THEN other[n] ELSE d[n]]

\* The property names registered with StyleSheetSpecification
RegisteredProperties ==
    {<<"t">>, <<"c">>, <<"t", "o", "p">>, <<"c", "o", "l", "o", "r">>}

\* StyleSheetSpecification::ParsePropertyDeclaration(dictionary, name, value, ...):
\* [ok, properties]; a declaration of an unregistered property or without a value
\* is rejected and leaves the dictionary alone.
ParsePropertyDeclaration(properties, name, value) ==
    IF name \in RegisteredProperties /\ value # <<>>
    THEN [ok |-> TRUE, properties |-> SetProperty(properties, name, value)]
    ELSE [ok |-> FALSE, properties |-> properties]

\* ReadProperties' locals when it is entered: state, name, value,
\* previous_character, the dictionary it fills, and as history the warnings it
\* logged and the <<name, value>> pairs it forwarded to ParsePropertyDeclaration
InitialLocals ==
    [state |-> "NAME", name |-> <<>>, value |-> <<>>, previous_character |-> NoChar,
     properties |-> EmptyDictionary, log |-> <<>>, forwarded |-> <<>>]

\* mutation of NameSemicolon: the name read so far is kept for the next declaration
NameSemicolonKeepsName(l) ==
    [l EXCEPT !.log = IF StripWhitespace(l.name) # <<>>
                      THEN Append(@, "Found name with no value") ELSE @]

\* case NAME, character == ';'
NameSemicolon(l) ==
    [l EXCEPT !.name = <<>>,
              !.log = IF StripWhitespace(l.name) # <<>>
                      THEN Append(@, "Found name with no value") ELSE @]

\* case NAME, character == ':'
NameColon(l) == [l EXCEPT !.name = StripWhitespace(@), !.state = "VALUE"]

\* case VALUE, character == ';'
ValueSemicolon(l) ==
    Strict(ParsePropertyDeclaration(l.properties, l.name, StripWhitespace(l.value)),
           LAMBDA d :
       [l EXCEPT !.state = "NAME", !.name = <<>>, !.value = <<>>,
                 !.properties = d.properties,
                 !.forwarded = Append(@, <<l.name, StripWhitespace(l.value)>>),
                 !.log = IF d.ok THEN @
                         ELSE Append(@, "Syntax error parsing property declaration")])

\* mutation of ValueEndOfRule: the pending declaration is committed as by a `;`
ValueEndOfRuleCommits(l) ==
    [ValueSemicolon(l) EXCEPT !.log = Append(@, "End of rule encountered (value)")]

\* case VALUE, character == '}'
ValueEndOfRule(l) == [l EXCEPT !.log = Append(@, "End of rule encountered (value)")]

\* case VALUE, any other character
ValueCharacter(l, character) ==
    [l EXCEPT !.value = Append(@, character),
              !.state = IF character = QUOTE_CHAR THEN "QUOTE" ELSE "VALUE"]

\* case QUOTE
QuoteCharacter(l, character) ==
    [l EXCEPT !.value = Append(@, character),
              !.state = IF character = QUOTE_CHAR /\ l.previous_character # "/"
                        THEN "VALUE" ELSE "QUOTE"]

\* one iteration of the loop of ReadProperties, or its end: [done, r, locals]
ReadPropertiesStep(in, ck, r, locals) ==
    Strict(<<ReadCharacter(in, ck, r), locals>>, LAMBDA p :
    LET rc == p[1]
        l == p[2]
        r1 == [rc.r EXCEPT !.pos = @ + 1]
        character == rc.ch
        Continue(l1) ==
            [done |-> FALSE, r |-> r1,
             locals |-> [l1 EXCEPT !.previous_character = character]]
        ReturnTrue(r2, warn, message) ==
            [done |-> TRUE, r |-> r2,
             locals |-> [l EXCEPT !.log = IF warn THEN Append(@, message) ELSE @]]
    IN
    IF ~rc.ok
    THEN ReturnTrue(rc.r, l.name # <<>> \/ l.value # <<>>, "Invalid property declaration")
    ELSE
    CASE l.state = "NAME" ->
           IF character = ";" THEN Continue(NameSemicolon(l))
           ELSE IF character = "}"
           THEN ReturnTrue(r1, StripWhitespace(l.name) # <<>>,
                           "End of rule encountered (name)")
           ELSE IF character = ":" THEN Continue(NameColon(l))
           ELSE Continue([l EXCEPT !.name = Append(@, character)])
      [] l.state = "VALUE" ->
           IF character = ";" THEN Continue(ValueSemicolon(l))
           ELSE IF character = "}"
           THEN [done |-> TRUE, r |-> r1, locals |-> ValueEndOfRule(l)]
           ELSE Continue(ValueCharacter(l, character))
      [] l.state = "QUOTE" -> Continue(QuoteCharacter(l, character)))

\* StyleSheetParser::ReadProperties; the result is [ok, properties, r, log], log
\* being the warnings it passed to Log::Message
RECURSIVE ReadPropertiesLoop(_, _, _, _)
ReadPropertiesLoop(in, ck, r, locals) ==
    Strict(ReadPropertiesStep(in, ck, r, locals), LAMBDA n :
       IF n.done
       THEN [ok |-> TRUE, properties |-> n.locals.properties, r |-> n.r,
             log |-> n.locals.log]
       ELSE ReadPropertiesLoop(in, ck, n.r, n.locals))

ReadProperties(in, ck, r) == ReadPropertiesLoop(in, ck, r, InitialLocals)

-----------------------------------------------------------------------------
(* The style tree.  A StyleSheetNode is named by its path from the node     *)
(* given to Parse: the sequence of the <<type, name>> pairs of the children *)
(* descended through.  tree maps each node to its properties, a function    *)
(* from property names to [value, specificity].                             *)

RootNode == <<>>

EmptyTree == (RootNode :> EmptyDictionary)

\* StyleSheetNode::GetChildNode(name, type): the child of that name and type,
\* created when the node has none; [tree, node]
GetChildNode(t, node, name, type) ==
    LET child == Append(node, <<type, name>>)
    IN [tree |-> IF child \in DOMAIN t THEN t ELSE t @@ (child :> EmptyDictionary),
        node |-> child]

\* the for loops of ImportProperties descending through a list of names of one type
RECURSIVE GetChildNodes(_, _, _, _)
GetChildNodes(t, node, names, type) ==
    IF names = <<>> THEN [tree |-> t, node |-> node]
    ELSE Strict(GetChildNode(t, node, names[1], type), LAMBDA g :
           GetChildNodes(g.tree, g.node, Tail(names), type))

\* StyleSheetNode::ImportProperties(properties, rule_specificity): each property is
\* recorded with the rule's specificity unless the node holds it with a higher one
NodeImportProperties(held, properties, rule_specificity) ==
    [n \in DOMAIN held \cup DOMAIN properties |->
        IF n \in DOMAIN properties
           /\ ~(n \in DOMAIN held /\ held[n].specificity > rule_specificity)
        THEN [value |-> properties[n], specificity |-> rule_specificity]
        ELSE held[n]]

\* StyleSheetFactory::GetSelector(name) != NULL: the registered structural selectors
StructuralSelectors == {<<"e">>, <<"f">>}

GetSelector(name) == name \in StructuralSelectors

\* the inner scan of ImportProperties: the end of the identifier starting at index
RECURSIVE ScanIdentifier(_, _)
ScanIdentifier(name, end_index) ==
    IF end_index < Len(name) /\ name[end_index + 1] \notin {"#", ".", ":"}
    THEN ScanIdentifier(name, end_index + 1)
    ELSE end_index

\* the while loop of ImportProperties over one compound selector:
\* [tag, id, classes, pseudo_classes, structural_pseudo_classes], unsorted
RECURSIVE DecomposeLoop(_, _, _)
DecomposeLoop(name, start_index, found) == Strict(<<start_index, found>>, LAMBDA p :
    LET index == p[1]
        acc == p[2]
    IN
    IF index >= Len(name) THEN acc
    ELSE LET end_index == ScanIdentifier(name, index + 1)
             identifier == Substring(name, index, end_index - index)
             rest == SubstringFrom(identifier, 1)
             acc1 == CASE identifier[1] = "#" -> [acc EXCEPT !.id = rest]
                       [] identifier[1] = "." -> [acc EXCEPT !.classes = Append(@, rest)]
                       [] identifier[1] = ":" ->
                            IF GetSelector(rest)
                            THEN [acc EXCEPT !.structural_pseudo_classes = Append(@, rest)]
                            ELSE [acc EXCEPT !.pseudo_classes = Append(@, rest)]
                       [] OTHER -> [acc EXCEPT !.tag = identifier]
         IN DecomposeLoop(name, end_index, acc1))

Decompose(name) ==
    DecomposeLoop(name, 0, [tag |-> <<>>, id |-> <<>>, classes |-> <<>>,
                            pseudo_classes |-> <<>>, structural_pseudo_classes |-> <<>>])

\* mutation of SortClasses: the classes are left in the order of the text
UnsortedClasses(classes) == classes

\* the sort of the classes of ImportProperties
SortClasses(classes) == SortStrings(classes)

\* the sort of the pseudo-classes of ImportProperties
SortPseudoClasses(pseudo_classes) == SortStrings(pseudo_classes)

\* the sort of the structural pseudo-classes of ImportProperties
SortStructuralPseudoClasses(structural) == SortStrings(structural)

\* mutation of TagChild: a compound without a tag descends to no tag node
TagChildWhenNamed(t, leaf_node, tag) ==
    IF tag # <<>> THEN GetChildNode(t, leaf_node, tag, "TAG")
    ELSE [tree |-> t, node |-> leaf_node]

\* leaf_node = leaf_node->GetChildNode(tag, StyleSheetNode::TAG), whatever the tag
TagChild(t, leaf_node, tag) == GetChildNode(t, leaf_node, tag, "TAG")

\* the body of the for loop of ImportProperties: the descent for one compound
DescendCompound(t, leaf_node, name) ==
    Strict(Decompose(name), LAMBDA d :
    Strict(TagChild(t, leaf_node, d.tag), LAMBDA g1 :
    Strict(IF d.id # <<>> THEN GetChildNode(g1.tree, g1.node, d.id, "ID") ELSE g1, LAMBDA g2 :
    Strict(GetChildNodes(g2.tree, g2.node, SortClasses(d.classes), "CLASS"), LAMBDA g3 :
    Strict(GetChildNodes(g3.tree, g3.node,
                         SortStructuralPseudoClasses(d.structural_pseudo_classes),
                         "STRUCTURAL_PSEUDO_CLASS"), LAMBDA g4 :
    GetChildNodes(g4.tree, g4.node, SortPseudoClasses(d.pseudo_classes),
                  "PSEUDO_CLASS"))))))

RECURSIVE DescendCompounds(_, _, _)
DescendCompounds(t, leaf_node, nodes) ==
    IF nodes = <<>> THEN [tree |-> t, node |-> leaf_node]
    ELSE Strict(DescendCompound(t, leaf_node, nodes[1]), LAMBDA g :
           DescendCompounds(g.tree, g.node, Tail(nodes)))

\* StyleSheetParser::ImportProperties(node, names, properties, rule_specificity):
\* [tree, node], node being the leaf the properties were merged into
ImportProperties(t, node, names, properties, rule_specificity) ==
    Strict(DescendCompounds(t, node, ExpandString(names, " ")), LAMBDA g :
       [tree |-> [g.tree EXCEPT ![g.node] =
                     NodeImportProperties(@, properties, rule_specificity)],
        node |-> g.node])

-----------------------------------------------------------------------------
(* Keyframes.  A normalized time is held in units of TIME_UNIT = 10^-6, so   *)
(* 1.0f is 1000000 and p% is p * 10000.  A Keyframes is                      *)
(* [blocks, property_names], a block [normalized_time, properties].         *)

KEYFRAMES == <<"k", "e", "y", "f", "r", "a", "m", "e", "s">>

\* static IsValidIdentifier
IsValidIdentifier(str) ==
    /\ str # <<>>
    /\ \A i \in 1..Len(str) : str[i] \in Lower \cup Upper \cup Digits \cup {"-", "_"}

DigitValue(c) == CharCode(c) - CharCode("0")

\* how many digits s holds from index i on
RECURSIVE DigitRun(_, _)
DigitRun(s, i) == IF i <= Len(s) /\ s[i] \in Digits THEN 1 + DigitRun(s, i + 1) ELSE 0

\* the number the digits s[i .. i + n - 1] spell
RECURSIVE DigitsValue(_, _, _)
DigitsValue(s, i, n) ==
    IF n = 0 THEN 0 ELSE DigitsValue(s, i, n - 1) * 10 + DigitValue(s[i + n - 1])

\* the first FRACTION_DIGITS digits after the point, as a number of 10^-4
FractionValue(s, i, n) ==
    LET d(k) == IF k <= n THEN DigitValue(s[i + k - 1]) ELSE 0
    IN d(1) * 1000 + d(2) * 100 + d(3) * 10 + d(4)

\* sscanf(rule, "%f%%%n", &value, &count): [converted, count, value]; converted is
\* sscanf's result, count is > 0 when the '%' after the number matched, value is
\* in units of 10^-4 (a percentage p reads as p * 10000)
ScanPercent(rule) ==
    LET neg   == rule # <<>> /\ rule[1] = "-"
        i0    == IF neg THEN 2 ELSE 1
        n     == DigitRun(rule, i0)
        point == i0 + n <= Len(rule) /\ rule[i0 + n] = "."
        m     == IF point THEN DigitRun(rule, i0 + n + 1) ELSE 0
        stop  == i0 + n + (IF point THEN 1 + m ELSE 0)
        mag   == DigitsValue(rule, i0, n) * 10000 + FractionValue(rule, i0 + n + 1, m)
    IN IF n + m = 0 THEN [converted |-> 0, count |-> 0, value |-> 0]
       ELSE [converted |-> 1,
             count |-> IF stop <= Len(rule) /\ rule[stop] = "%" THEN stop ELSE 0,
             value |-> IF neg THEN 0 - mag ELSE mag]

\* the first loop of ParseKeyframeBlock: the rule_values of a rule_list
RECURSIVE RuleValues(_)
RuleValues(rule_list) ==
    IF rule_list = <<>> THEN <<>>
    ELSE LET rule == ToLower(rule_list[1])
             sc   == ScanPercent(rule)
             here == IF rule = <<"f", "r", "o", "m">> THEN <<0>>
                     ELSE IF rule = <<"t", "o">> THEN <<1000000>>
                     ELSE IF sc.converted = 1 /\ sc.count > 0
                             /\ sc.value >= 0 /\ sc.value <= 1000000
                     THEN <<sc.value>>
                     ELSE <<>>
         IN here \o RuleValues(Tail(rule_list))

Abs(x) == IF x < 0 THEN 0 - x ELSE x

\* the find_if predicate of ParseKeyframeBlock: |normalized_time - selector| < 0.0001f
SameTime(normalized_time, selector) == Abs(normalized_time - selector) < 100

\* std::find_if over the blocks: the index of the first block at the selector, 0 if none
FindBlock(blocks, selector) ==
    IF \E i \in 1..Len(blocks) : SameTime(blocks[i].normalized_time, selector)
    THEN CHOOSE i \in 1..Len(blocks) :
            /\ SameTime(blocks[i].normalized_time, selector)
            /\ \A j \in 1..(i - 1) : ~SameTime(blocks[j].normalized_time, selector)
    ELSE 0

\* mutation of AddKeyframeBlock: a block is added without looking for one at the selector
AddKeyframeBlockAlways(blocks, selector, properties) ==
    Append(blocks, [normalized_time |-> selector,
                    properties |-> Import(EmptyDictionary, properties)])

\* the body of the second loop of ParseKeyframeBlock for one selector
AddKeyframeBlock(blocks, selector, properties) ==
    Strict(FindBlock(blocks, selector), LAMBDA it :
       IF it = 0
       THEN Append(blocks, [normalized_time |-> selector,
                            properties |-> Import(EmptyDictionary, properties)])
       ELSE [blocks EXCEPT ![it].properties = Import(EmptyDictionary, properties)])

RECURSIVE AddKeyframeBlocks(_, _, _)
AddKeyframeBlocks(blocks, rule_values, properties) ==
    IF rule_values = <<>> THEN blocks
    ELSE Strict(AddKeyframeBlock(blocks, rule_values[1], properties), LAMBDA added :
           AddKeyframeBlocks(added, Tail(rule_values), properties))

EmptyKeyframes == [blocks |-> <<>>, property_names |-> <<>>]

\* StyleSheetParser::ParseKeyframeBlock; the result is [ok, keyframes, log]
ParseKeyframeBlock(keyframes_map, identifier, rules, properties) ==
    IF ~IsValidIdentifier(identifier)
    THEN [ok |-> FALSE, keyframes |-> keyframes_map, log |-> <<"Invalid keyframes identifier">>]
    ELSE IF GetNumProperties(properties) = 0
    THEN [ok |-> TRUE, keyframes |-> keyframes_map, log |-> <<>>]
    ELSE Strict(RuleValues(ExpandString(rules, ",")), LAMBDA rule_values :
         LET kf == IF identifier \in DOMAIN keyframes_map
                   THEN keyframes_map[identifier] ELSE EmptyKeyframes
         IN IF rule_values = <<>>
            THEN [ok |-> FALSE, keyframes |-> keyframes_map,
                  log |-> <<"Invalid keyframes rule(s)">>]
            ELSE Strict([kf EXCEPT !.blocks = AddKeyframeBlocks(@, rule_values, properties)],
                        LAMBDA kf1 :
                 [ok |-> TRUE, log |-> <<>>,
                  keyframes |-> [n \in DOMAIN keyframes_map \cup {identifier} |->
                                   IF n = identifier THEN kf1 ELSE keyframes_map[n]]]))

\* std::sort of the blocks on normalized_time
RECURSIVE InsertBlock(_, _)
InsertBlock(b, l) ==
    IF l = <<>> THEN <<b>>
    ELSE IF b.normalized_time < l[1].normalized_time THEN <<b>> \o l
    ELSE <<l[1]>> \o InsertBlock(b, Tail(l))

\* mutation of SortBlocks: the blocks are left in the order they were added
UnsortedBlocks(blocks) == blocks

RECURSIVE SortBlocks(_)
SortBlocks(blocks) ==
    IF blocks = <<>> THEN <<>>
    ELSE Strict(SortBlocks(Tail(blocks)), LAMBDA sorted : InsertBlock(blocks[1], sorted))

\* the names of a dictionary in some order (GetProperties() iteration)
RECURSIVE SetToSeq(_)
SetToSeq(S) ==
    IF S = {} THEN <<>>
    ELSE Strict(CHOOSE y \in S : TRUE, LAMBDA x : <<x>> \o SetToSeq(S \ {x}))

\* the push_back loop of PostprocessKeyframes
RECURSIVE BlockPropertyNames(_)
BlockPropertyNames(blocks) ==
    IF blocks = <<>> THEN <<>>
    ELSE SetToSeq(DOMAIN blocks[1].properties) \o BlockPropertyNames(Tail(blocks))

\* mutation of Unique: adjacent duplicates are kept
NotUnique(l) == l

\* std::unique: adjacent duplicates removed
RECURSIVE Unique(_)
Unique(l) ==
    IF Len(l) < 2 THEN l
    ELSE IF l[1] = l[2] THEN Unique(Tail(l))
    ELSE <<l[1]>> \o Unique(Tail(l))

\* the body of the loop of PostprocessKeyframes for one Keyframes
PostprocessOne(kf) ==
    Strict(SortBlocks(kf.blocks), LAMBDA blocks :
       [blocks |-> blocks,
        property_names |->
            Unique(SortStrings(kf.property_names \o BlockPropertyNames(blocks)))])

\* static PostprocessKeyframes
PostprocessKeyframes(keyframes_map) ==
    [n \in DOMAIN keyframes_map |-> PostprocessOne(keyframes_map[n])]

-----------------------------------------------------------------------------
(* StyleSheetParser::Parse.  A parser state s is the record of the          *)
(* variables; each branch of the switch is an operator from the state and   *)
(* the result tk of FindToken to the state after the branch.                *)

Reader(s) == [buf |-> s.parse_buffer, pos |-> s.parse_buffer_pos,
              spos |-> s.stream_pos, line |-> s.line_number]

WithReader(s, r) == [s EXCEPT !.parse_buffer = r.buf, !.parse_buffer_pos = r.pos,
                              !.stream_pos = r.spos, !.line_number = r.line]

WithToken(s, tk) ==
    [WithReader(s, tk.r) EXCEPT !.token = tk.token, !.pre_token_str = tk.buffer]

\* the state of a constructed parser about to Parse the stream `in`
Constructed(in, ck) ==
    [input |-> in, chunk |-> ck, stream_pos |-> 0,
     parse_buffer |-> <<>>, parse_buffer_pos |-> 0, line_number |-> 0,
     pc |-> "start", state |-> "Global", token |-> NoToken, pre_token_str |-> <<>>,
     keyframes_identifier |-> <<>>, rule_count |-> 0,
     tree |-> EmptyTree, keyframes |-> <<>>,
     imports |-> <<>>, log |-> <<>>,
     read_locals |-> InitialLocals, postprocessed |-> 0]

\* mutation of Return: Parse returns without PostprocessKeyframes
ReturnUnprocessed(s) == [s EXCEPT !.pc = "done"]

\* the end of Parse: PostprocessKeyframes(keyframes); return rule_count
Return(s) ==
    [s EXCEPT !.keyframes = PostprocessKeyframes(@), !.postprocessed = @ + 1,
              !.pc = "done"]

\* the head of Parse and the first test of the outer loop
ParseBegin(s) ==
    LET s0 == [s EXCEPT !.rule_count = 0, !.line_number = 0, !.state = "Global",
                        !.keyframes_identifier = <<>>]
    IN Strict(FillBuffer(s.input, s.chunk, Reader(s0)), LAMBDA f :
         IF f.ok THEN [WithReader(s0, f.r) EXCEPT !.pc = "loop"]
         ELSE Return(WithReader(s0, f.r)))

\* mutation of NextRuleCount: the increment is missing
RuleCountKept(count) == count

\* rule_count++
NextRuleCount(count) == count + 1

\* mutation of RuleSpecificity: every rule is given the same specificity
RuleSpecificityZero(count) == 0

\* the specificity Parse passes to ImportProperties for the rule being read
RuleSpecificity(count) == count

\* how many bytes of the stream lie before the reader's position
Offset(r) == r.spos - (Len(r.buf) - r.pos)

\* mutation of ImportRule: only the first selector of the list is imported
ImportRuleFirstOnly(t, imp, style_name_list, properties, rule_specificity, at) ==
    IF style_name_list = <<>> THEN [tree |-> t, imports |-> imp]
    ELSE Strict(ImportProperties(t, RootNode, style_name_list[1], properties,
                                 rule_specificity), LAMBDA g :
           [tree |-> g.tree,
            imports |-> Append(imp, [names |-> style_name_list[1], node |-> g.node,
                                     properties |-> properties,
                                     specificity |-> rule_specificity, at |-> at])])

\* the for loop over style_name_list: [tree, imports]; each call of ImportProperties
\* is recorded with the offset `at` of the rule's body in the stream
RECURSIVE ImportRule(_, _, _, _, _, _)
ImportRule(t, imp, style_name_list, properties, rule_specificity, at) ==
    IF style_name_list = <<>> THEN [tree |-> t, imports |-> imp]
    ELSE Strict(<<ImportProperties(t, RootNode, style_name_list[1], properties,
                                   rule_specificity), imp>>, LAMBDA p :
           ImportRule(p[1].tree,
                      Append(p[2], [names |-> style_name_list[1], node |-> p[1].node,
                                    properties |-> properties,
                                    specificity |-> rule_specificity, at |-> at]),
                      Tail(style_name_list), properties, rule_specificity, at))

\* case State::Global, token == '{'
GlobalRule(s, tk) ==
    Strict(ReadProperties(s.input, s.chunk, tk.r), LAMBDA rp :
    Strict(ImportRule(s.tree, s.imports, ExpandString(tk.buffer, ","), rp.properties,
                      RuleSpecificity(s.rule_count), Offset(tk.r)), LAMBDA g :
       [WithReader(WithToken(s, tk), rp.r) EXCEPT
            !.tree = g.tree, !.imports = g.imports, !.log = @ \o rp.log,
            !.rule_count = NextRuleCount(@)]))

\* case State::Global, token == '@'
GlobalAt(s, tk) == [WithToken(s, tk) EXCEPT !.state = "KeyframesIdentifier"]

\* mutation of GlobalInvalidCharacter: the stray token invalidates the parse
GlobalInvalidCharacterFatal(s, tk) ==
    [WithToken(s, tk) EXCEPT !.log = Append(@, "Invalid character (stylesheet)"),
                             !.state = "Invalid"]

\* case State::Global, any other token
GlobalInvalidCharacter(s, tk) ==
    [WithToken(s, tk) EXCEPT !.log = Append(@, "Invalid character (stylesheet)")]

\* case State::KeyframesIdentifier, token == '{'
KeyframesIdentifierOpen(s, tk) ==
    [WithToken(s, tk) EXCEPT
        !.keyframes_identifier =
            IF Substring(tk.buffer, 0, Len(KEYFRAMES)) = KEYFRAMES
            THEN StripWhitespace(SubstringFrom(tk.buffer, Len(KEYFRAMES)))
            ELSE <<>>,
        !.state = "KeyframesRules"]

\* case State::KeyframesIdentifier, any other token
KeyframesIdentifierInvalid(s, tk) ==
    [WithToken(s, tk) EXCEPT
        !.log = Append(@, "Invalid character (keyframes identifier)"),
        !.state = "Invalid"]

\* case State::KeyframesRules, token == '{'
KeyframesRulesBlock(s, tk) ==
    Strict(ReadProperties(s.input, s.chunk, tk.r), LAMBDA rp :
    Strict(ParseKeyframeBlock(s.keyframes, s.keyframes_identifier, tk.buffer,
                              rp.properties), LAMBDA kb :
       [WithReader(WithToken(s, tk), rp.r) EXCEPT
            !.state = "KeyframesRules",
            !.keyframes = kb.keyframes, !.log = @ \o rp.log \o kb.log]))

\* mutation of KeyframesRulesClose: the closing brace does not leave the at-rule
KeyframesRulesCloseStays(s, tk) == WithToken(s, tk)

\* case State::KeyframesRules, token == '}'
KeyframesRulesClose(s, tk) == [WithToken(s, tk) EXCEPT !.state = "Global"]

\* case State::KeyframesRules, any other token
KeyframesRulesInvalid(s, tk) ==
    [WithToken(s, tk) EXCEPT
        !.log = Append(@, "Invalid character (keyframes)"),
        !.state = "Invalid"]

\* FindToken returned 0: the inner loop ends and the outer loop tests FillBuffer
EndOfTokens(s, tk) ==
    Strict(FillBuffer(s.input, s.chunk, tk.r), LAMBDA f :
       IF f.ok THEN WithReader(WithToken(s, tk), f.r)
       ELSE Return(WithReader(WithToken(s, tk), f.r)))

\* mutation of InvalidBreak: the inner loop looks for one more token before it ends
InvalidBreakAfterToken(s) ==
    Return(WithToken(s, FindToken(s.input, s.chunk, Reader(s))))

\* the two `if (state == State::Invalid) break;` and the end of Parse
InvalidBreak(s) == Return(s)

\* the branch one iteration of the inner loop takes
Branch(s, tk) ==
    CASE s.pc = "start" -> "ParseBegin"
      [] s.pc = "done" -> "None"
      [] s.state = "Invalid" -> "InvalidBreak"
      [] tk.token = NoToken -> "EndOfTokens"
      [] s.state = "Global" ->
            (CASE tk.token = "{" -> "GlobalRule"
               [] tk.token = "@" -> "GlobalAt"
               [] OTHER -> "GlobalInvalidCharacter")
      [] s.state = "KeyframesIdentifier" ->
            (CASE tk.token = "{" -> "KeyframesIdentifierOpen"
               [] OTHER -> "KeyframesIdentifierInvalid")
      [] s.state = "KeyframesRules" ->
            (CASE tk.token = "{" -> "KeyframesRulesBlock"
               [] tk.token = "}" -> "KeyframesRulesClose"
               [] OTHER -> "KeyframesRulesInvalid")

\* the token the next iteration of the inner loop finds
NextToken(s) == FindToken(s.input, s.chunk, Reader(s))

\* one step of Parse from state s
ParseStep(s) ==
    Strict(IF s.pc = "loop" /\ s.state # "Invalid" THEN NextToken(s)
           ELSE [token |-> NoToken, buffer |-> <<>>, r |-> Reader(s)], LAMBDA tk :
    Strict(Branch(s, tk), LAMBDA b :
       CASE b = "ParseBegin" -> ParseBegin(s)
         [] b = "InvalidBreak" -> InvalidBreak(s)
         [] b = "EndOfTokens" -> EndOfTokens(s, tk)
         [] b = "GlobalRule" -> GlobalRule(s, tk)
         [] b = "GlobalAt" -> GlobalAt(s, tk)
         [] b = "GlobalInvalidCharacter" -> GlobalInvalidCharacter(s, tk)
         [] b = "KeyframesIdentifierOpen" -> KeyframesIdentifierOpen(s, tk)
         [] b = "KeyframesIdentifierInvalid" -> KeyframesIdentifierInvalid(s, tk)
         [] b = "KeyframesRulesBlock" -> KeyframesRulesBlock(s, tk)
         [] b = "KeyframesRulesClose" -> KeyframesRulesClose(s, tk)
         [] b = "KeyframesRulesInvalid" -> KeyframesRulesInvalid(s, tk)
         [] OTHER -> s))

\* Parse run to its return
RECURSIVE ParseRun(_)
ParseRun(s0) ==
    Strict(s0, LAMBDA s : IF s.pc = "done" THEN s ELSE ParseRun(ParseStep(s)))

\* Parse(node, keyframes, stream) on a constructed parser, run to its return
Parse(in, ck) == ParseRun(Constructed(in, ck))

-----------------------------------------------------------------------------
(* The stylesheets parsed: texts put together from these pieces.           *)

\* `x .a.b{t:1;}`: a rule on a descendant compound of two classes
RULE_AB == <<"x", " ", ".", "a", ".", "b", "{", "t", ":", "1", ";", "}">>

\* `x .b.a{t:2;}`: the same classes in the other order, the same property
RULE_BA == <<"x", " ", ".", "b", ".", "a", "{", "t", ":", "2", ";", "}">>

\* `#a,x.b:y:e.a:f{t 1;c:2;}`: a list of two selectors, the second with classes a, b, the
\* pseudo-class y and the structural pseudo-classes e, f; the first declaration lacks its colon
RULE_LIST == <<"#", "a", ",", "x", ".", "b", ":", "y", ":", "e", ".", "a", ":", "f", "{", "t", " ", "1", ";", "c", ":", "2", ";", "}">>

\* `{c:1;}`: a rule block with an empty selector list
RULE_NO_SELECTOR == <<"{", "c", ":", "1", ";", "}">>

\* `}`: a closing brace
CLOSE == <<"}">>

\* `@`: an at sign
AT == <<"@">>

\* `@keyframes k{`: the head of a keyframes at-rule named k
AT_KEYFRAMES == <<"@", "k", "e", "y", "f", "r", "a", "m", "e", "s", " ", "k", "{">>

\* `}@keyframes k{`: the end of an at-rule and the head of another one named k
REOPEN_K == <<"}", "@", "k", "e", "y", "f", "r", "a", "m", "e", "s", " ", "k", "{">>

\* `}@keyframes m{`: the end of an at-rule and the head of one named m
REOPEN_M == <<"}", "@", "k", "e", "y", "f", "r", "a", "m", "e", "s", " ", "m", "{">>

\* `from{t:1;}`: a keyframe block at 0
BLOCK_FROM == <<"f", "r", "o", "m", "{", "t", ":", "1", ";", "}">>

\* `to,0.005%,From{c:2;}`: a keyframe block at 1, at 0.00005 and at 0
BLOCK_LIST == <<"t", "o", ",", "0", ".", "0", "0", "5", "%", ",", "F", "r", "o", "m", "{", "c", ":", "2", ";", "}">>

\* `0%{}`: a keyframe block at 0 without declarations
BLOCK_EMPTY == <<"0", "%", "{", "}">>

\* `.foo { color: red; }`: a rule on a class
SCENARIO_FOO == <<".", "f", "o", "o", " ", "{", " ", "c", "o", "l", "o", "r", ":", " ", "r", "e", "d", ";", " ", "}">>

\* `.x { top 1px; }`: a declaration without its colon
SCENARIO_NO_COLON == <<".", "x", " ", "{", " ", "t", "o", "p", " ", "1", "p", "x", ";", " ", "}">>

\* `#a, #b { top: 1px; }`: a rule on two selectors
SCENARIO_IDS == <<"#", "a", ",", " ", "#", "b", " ", "{", " ", "t", "o", "p", ":", " ", "1", "p", "x", ";", " ", "}">>

\* `.x{d:1;top:2px;}`: a declaration of an unregistered property and a registered one
RULE_REJECTED == <<".", "x", "{", "d", ":", "1", ";", "t", "o", "p", ":", "2", "p", "x", ";", "}">>

\* the concatenations of at most n pieces
RECURSIVE Texts(_, _)
Texts(pieces, n) ==
    IF n = 0 THEN {<<>>}
    ELSE LET shorter == Texts(pieces, n - 1)
         IN shorter \cup {t \o p : t \in shorter, p \in pieces}

MaxPieces == 3
MaxBlocks == 3
MaxChunk == 2

\* stylesheets of rules, stray tokens and the start of a keyframes at-rule
Pieces == {RULE_AB, RULE_BA, RULE_LIST, RULE_NO_SELECTOR, CLOSE, AT,
           AT_KEYFRAMES \o BLOCK_FROM}

Inputs == Texts(Pieces, MaxPieces)

\* stylesheets that open a keyframes at-rule and go on with blocks, ends of the
\* at-rule, further at-rules and stray tokens
KeyframesPieces == {BLOCK_FROM, BLOCK_LIST, BLOCK_EMPTY, REOPEN_K, REOPEN_M, CLOSE, AT}

KeyframesInputs == {AT_KEYFRAMES \o t : t \in Texts(KeyframesPieces, MaxBlocks)}

\* stylesheets of the scenarios: rules on classes and ids, declarations that are
\* dropped, stray tokens and the start of a keyframes at-rule
ScenarioPieces == {SCENARIO_FOO, SCENARIO_NO_COLON, SCENARIO_IDS, RULE_REJECTED,
                   CLOSE, AT, AT_KEYFRAMES \o BLOCK_FROM}

ScenarioInputs == Texts(ScenarioPieces, MaxPieces)

\* the sizes of the chunks a stream delivers: short ones, or all that is asked for
ChunkSizes == {MaxChunk, READ_SIZE}

-----------------------------------------------------------------------------
(* The state machine *)

St == [input |-> input, chunk |-> chunk, stream_pos |-> stream_pos,
       parse_buffer |-> parse_buffer, parse_buffer_pos |-> parse_buffer_pos,
       line_number |-> line_number, pc |-> pc, state |-> state, token |-> token,
       pre_token_str |-> pre_token_str, keyframes_identifier |-> keyframes_identifier,
       rule_count |-> rule_count, tree |-> tree, keyframes |-> keyframes,
       imports |-> imports, log |-> log, read_locals |-> read_locals,
       postprocessed |-> postprocessed]

IsParserState(s) ==
    /\ input = s.input /\ chunk = s.chunk /\ stream_pos = s.stream_pos
    /\ parse_buffer = s.parse_buffer /\ parse_buffer_pos = s.parse_buffer_pos
    /\ line_number = s.line_number /\ pc = s.pc /\ state = s.state /\ token = s.token
    /\ pre_token_str = s.pre_token_str /\ keyframes_identifier = s.keyframes_identifier
    /\ rule_count = s.rule_count /\ tree = s.tree /\ keyframes = s.keyframes
    /\ imports = s.imports /\ log = s.log /\ read_locals = s.read_locals
    /\ postprocessed = s.postprocessed

IsState(s) == IsParserState(s) /\ read_comment = FALSE /\ EventsUnused /\ IteratorUnused

Becomes(s) ==
    /\ input' = s.input /\ chunk' = s.chunk /\ stream_pos' = s.stream_pos
    /\ parse_buffer' = s.parse_buffer /\ parse_buffer_pos' = s.parse_buffer_pos
    /\ line_number' = s.line_number /\ pc' = s.pc /\ state' = s.state /\ token' = s.token
    /\ pre_token_str' = s.pre_token_str /\ keyframes_identifier' = s.keyframes_identifier
    /\ rule_count' = s.rule_count /\ tree' = s.tree /\ keyframes' = s.keyframes
    /\ imports' = s.imports /\ log' = s.log /\ read_locals' = s.read_locals
    /\ postprocessed' = s.postprocessed
    /\ UNCHANGED <<read_comment, event_vars, iterator_vars>>

InitWith(texts) ==
    \E in \in texts, ck \in ChunkSizes : \E s \in {Constructed(in, ck)} : IsState(s)

Init == InitWith(Inputs)

Begin == pc = "start" /\ \E n \in {ParseBegin(St)} : Becomes(n)

Rule ==
    /\ pc = "loop" /\ state = "Global"
    /\ \E tk \in {NextToken(St)} :
          tk.token = "{" /\ \E n \in {GlobalRule(St, tk)} : Becomes(n)

At ==
    /\ pc = "loop" /\ state = "Global"
    /\ \E tk \in {NextToken(St)} :
          tk.token = "@" /\ \E n \in {GlobalAt(St, tk)} : Becomes(n)

StrayClose ==
    /\ pc = "loop" /\ state = "Global"
    /\ \E tk \in {NextToken(St)} :
          tk.token = "}" /\ \E n \in {GlobalInvalidCharacter(St, tk)} : Becomes(n)

IdentifierOpen ==
    /\ pc = "loop" /\ state = "KeyframesIdentifier"
    /\ \E tk \in {NextToken(St)} :
          tk.token = "{" /\ \E n \in {KeyframesIdentifierOpen(St, tk)} : Becomes(n)

IdentifierInvalid ==
    /\ pc = "loop" /\ state = "KeyframesIdentifier"
    /\ \E tk \in {NextToken(St)} :
          tk.token \in {"@", "}"} /\ \E n \in {KeyframesIdentifierInvalid(St, tk)} : Becomes(n)

RulesBlock ==
    /\ pc = "loop" /\ state = "KeyframesRules"
    /\ \E tk \in {NextToken(St)} :
          tk.token = "{" /\ \E n \in {KeyframesRulesBlock(St, tk)} : Becomes(n)

RulesClose ==
    /\ pc = "loop" /\ state = "KeyframesRules"
    /\ \E tk \in {NextToken(St)} :
          tk.token = "}" /\ \E n \in {KeyframesRulesClose(St, tk)} : Becomes(n)

RulesInvalid ==
    /\ pc = "loop" /\ state = "KeyframesRules"
    /\ \E tk \in {NextToken(St)} :
          tk.token = "@" /\ \E n \in {KeyframesRulesInvalid(St, tk)} : Becomes(n)

EndOfStream ==
    /\ pc = "loop" /\ state # "Invalid"
    /\ \E tk \in {NextToken(St)} :
          tk.token = NoToken /\ \E n \in {EndOfTokens(St, tk)} : Becomes(n)

Abort == pc = "loop" /\ state = "Invalid" /\ \E n \in {InvalidBreak(St)} : Becomes(n)

Next ==
    \/ Begin
    \/ Rule
    \/ At
    \/ StrayClose
    \/ IdentifierOpen
    \/ IdentifierInvalid
    \/ RulesBlock
    \/ RulesClose
    \/ RulesInvalid
    \/ EndOfStream
    \/ Abort

Spec == Init /\ [][Next]_vars

InitKeyframes == InitWith(KeyframesInputs)

SpecKeyframes == InitKeyframes /\ [][Next]_vars

-----------------------------------------------------------------------------
(* ParseProperties(parsed_properties, properties): the parser reads the     *)
(* declarations of a text that is handed to it as a stream of its own.      *)

\* the characters of the declaration bodies read: a name character, the
\* punctuation of declarations, the quote, the slash and the backslash
BodyChars == {"a", ";", "}", QUOTE_CHAR, "/", "\\"}

\* the texts of at most n characters
RECURSIVE Strings(_, _)
Strings(chars, n) ==
    IF n = 0 THEN {<<>>}
    ELSE LET shorter == Strings(chars, n - 1)
         IN shorter \cup {Append(t, c) : t \in shorter, c \in chars}

MaxBody == 4

\* `t:` and what follows the colon
Bodies == {<<"t", ":">> \o t : t \in Strings(BodyChars, MaxBody)}

\* ParseProperties has set the stream and calls ReadProperties
InitProperties ==
    \E in \in Bodies, ck \in ChunkSizes :
        \E s \in {[Constructed(in, ck) EXCEPT !.pc = "properties"]} : IsState(s)

\* the parser after one iteration of ReadProperties' loop
ReadPropertiesNext(s) ==
    Strict(ReadPropertiesStep(s.input, s.chunk, Reader(s), s.read_locals), LAMBDA n :
       [WithReader(s, n.r) EXCEPT !.read_locals = n.locals,
                                  !.pc = IF n.done THEN "done" ELSE "properties"])

\* the character the next iteration of ReadProperties' loop reads
NextCharacter(s) == ReadCharacter(s.input, s.chunk, Reader(s))

ReadName ==
    /\ pc = "properties" /\ read_locals.state = "NAME" /\ NextCharacter(St).ok
    /\ \E n \in {ReadPropertiesNext(St)} : Becomes(n)

ReadValue ==
    /\ pc = "properties" /\ read_locals.state = "VALUE" /\ NextCharacter(St).ok
    /\ \E n \in {ReadPropertiesNext(St)} : Becomes(n)

ReadQuote ==
    /\ pc = "properties" /\ read_locals.state = "QUOTE" /\ NextCharacter(St).ok
    /\ \E n \in {ReadPropertiesNext(St)} : Becomes(n)

ReadEnd ==
    /\ pc = "properties" /\ ~NextCharacter(St).ok
    /\ \E n \in {ReadPropertiesNext(St)} : Becomes(n)

NextProperties == ReadName \/ ReadValue \/ ReadQuote \/ ReadEnd

SpecProperties == InitProperties /\ [][NextProperties]_vars

-----------------------------------------------------------------------------
(* FindToken read one character at a time: the texts are made of the slash, *)
(* the star and the newline, and end in nothing, a character or a token.    *)

ReaderChars == {"/", "*", NL}

MaxText == 5

ReaderTails == {<<>>, <<"a">>, <<"{", "a">>}

ReaderInputs == {h \o t : h \in Strings(ReaderChars, MaxText), t \in ReaderTails}

\* the stream delivers one byte at a time, short chunks, or all that is asked for
ReaderChunkSizes == {1, MaxChunk, READ_SIZE}

\* FindToken has cleared its buffer and enters its loop
InitReader ==
    \E in \in ReaderInputs, ck \in ReaderChunkSizes :
        \E s \in {[Constructed(in, ck) EXCEPT !.pc = "find"]} : IsState(s)

\* one iteration of FindToken's loop, or its end
FindStep(s) ==
    Strict(ReadCharacter(s.input, s.chunk, Reader(s)), LAMBDA rc :
       IF ~rc.ok
       THEN [WithReader(s, rc.r) EXCEPT !.token = NoToken, !.pc = "done"]
       ELSE IF rc.ch \in TOKENS
       THEN [WithReader(s, [rc.r EXCEPT !.pos = @ + 1]) EXCEPT
                 !.token = rc.ch, !.pc = "found"]
       ELSE [WithReader(s, [rc.r EXCEPT !.pos = @ + 1]) EXCEPT
                 !.pre_token_str = Append(@, rc.ch)])

\* the loop appends the character read to its buffer
FindCharacter ==
    /\ pc = "find" /\ NextCharacter(St).ok /\ NextCharacter(St).ch \notin TOKENS
    /\ \E n \in {FindStep(St)} : Becomes(n)

\* the loop returns the token read
FindFound ==
    /\ pc = "find" /\ NextCharacter(St).ok /\ NextCharacter(St).ch \in TOKENS
    /\ \E n \in {FindStep(St)} : Becomes(n)

\* ReadCharacter fails: FindToken returns 0
FindEnd ==
    /\ pc = "find" /\ ~NextCharacter(St).ok
    /\ \E n \in {FindStep(St)} : Becomes(n)

\* the caller calls FindToken again: buffer.Clear()
FindAgain ==
    /\ pc = "found"
    /\ \E n \in {[St EXCEPT !.pre_token_str = <<>>, !.pc = "find"]} : Becomes(n)

NextReader == FindCharacter \/ FindFound \/ FindEnd \/ FindAgain

SpecReader == InitReader /\ [][NextReader]_vars

-----------------------------------------------------------------------------
(* ReadCharacter run one read of parse_buffer[parse_buffer_pos] at a time.  *)
(* pc is "head" at the test of the inner while loop, "star" before the      *)
(* look-ahead of a comment's end, "slash" before the look-ahead of a        *)
(* comment's start, "returned" when a character was returned and "failed"   *)
(* when ReadCharacter returned false.  A read beyond the buffer's end is    *)
(* undefined and gives any character.                                       *)

AnyChar == {"/", "*", NL, "a"}

\* what parse_buffer[parse_buffer_pos] gives
CharacterAt(r) == IF r.pos < Len(r.buf) THEN {r.buf[r.pos + 1]} ELSE AnyChar

\* the reader's members and ReadCharacter's position and local change, a
\* returned character is recorded, and nothing else changes
ReaderBecomes(r, position, in_comment, got) ==
    /\ parse_buffer' = r.buf /\ parse_buffer_pos' = r.pos /\ stream_pos' = r.spos
    /\ line_number' = r.line /\ pc' = position /\ read_comment' = in_comment
    /\ pre_token_str' = pre_token_str \o got
    /\ UNCHANGED <<input, chunk, state, token, keyframes_identifier, rule_count, tree,
                   keyframes, imports, log, read_locals, postprocessed, event_vars,
                   iterator_vars>>

\* a scanner calls ReadCharacter on a constructed parser
InitBuffer ==
    /\ \E in \in ReaderInputs, ck \in ReaderChunkSizes :
          IsParserState([Constructed(in, ck) EXCEPT !.pc = "head"])
    /\ read_comment = FALSE /\ EventsUnused /\ IteratorUnused

\* the inner while loop is entered on a newline: line_number++, parse_buffer_pos++
ReadNewline ==
    /\ pc = "head" /\ parse_buffer_pos < Len(parse_buffer)
    /\ parse_buffer[parse_buffer_pos + 1] = NL
    /\ ReaderBecomes([Reader(St) EXCEPT !.line = @ + 1, !.pos = @ + 1], "head", read_comment, <<>>)

\* inside a comment: a `*` advances, refills at the buffer's end and goes on to
\* the look-ahead, or fails; any other character is passed
ReadInComment ==
    /\ pc = "head" /\ parse_buffer_pos < Len(parse_buffer) /\ read_comment
    /\ parse_buffer[parse_buffer_pos + 1] # NL
    /\ IF parse_buffer[parse_buffer_pos + 1] = "*"
       THEN \E f \in {AdvanceAndFill(input, chunk, Reader(St))} :
              ReaderBecomes(f.r, IF f.ok THEN "star" ELSE "failed", TRUE, <<>>)
       ELSE ReaderBecomes([Reader(St) EXCEPT !.pos = @ + 1], "head", TRUE, <<>>)

\* if (parse_buffer[parse_buffer_pos] == '/') comment = false; parse_buffer_pos++
ReadStarAhead ==
    /\ pc = "star"
    /\ \E c \in CharacterAt(Reader(St)) :
          ReaderBecomes([Reader(St) EXCEPT !.pos = @ + 1], "head", c # "/", <<>>)

\* outside a comment: a `/` advances, refills at the buffer's end and goes on to
\* the look-ahead, or is returned at the end of the stream; any other character
\* is returned
ReadOutside ==
    /\ pc = "head" /\ parse_buffer_pos < Len(parse_buffer) /\ ~read_comment
    /\ parse_buffer[parse_buffer_pos + 1] # NL
    /\ IF parse_buffer[parse_buffer_pos + 1] = "/"
       THEN \E f \in {AdvanceAndFill(input, chunk, Reader(St))} :
              IF f.ok THEN ReaderBecomes(f.r, "slash", FALSE, <<>>)
              ELSE ReaderBecomes([f.r EXCEPT !.buf = <<"/">>], "returned", FALSE, <<"/">>)
       ELSE ReaderBecomes(Reader(St), "returned", FALSE, <<parse_buffer[parse_buffer_pos + 1]>>)

\* if (parse_buffer[parse_buffer_pos] == '*') comment = true; else the `/` is
\* returned and put back
ReadSlashAhead ==
    /\ pc = "slash"
    /\ \E c \in CharacterAt(Reader(St)) :
          IF c = "*" THEN ReaderBecomes([Reader(St) EXCEPT !.pos = @ + 1], "head", TRUE, <<>>)
          ELSE ReaderBecomes(PushBack(Reader(St)), "returned", FALSE, <<"/">>)

\* the buffer is read up: while (FillBuffer()), or return false
ReadRefill ==
    /\ pc = "head" /\ parse_buffer_pos >= Len(parse_buffer)
    /\ \E f \in {FillBuffer(input, chunk, Reader(St))} :
          ReaderBecomes(f.r, IF f.ok THEN "head" ELSE "failed", read_comment, <<>>)

\* the scanner takes the character, parse_buffer_pos++, and calls ReadCharacter again
ReadAgain ==
    /\ pc = "returned"
    /\ ReaderBecomes([Reader(St) EXCEPT !.pos = @ + 1], "head", FALSE, <<>>)

NextBuffer ==
    \/ ReadNewline
    \/ ReadInComment
    \/ ReadStarAhead
    \/ ReadOutside
    \/ ReadSlashAhead
    \/ ReadRefill
    \/ ReadAgain

SpecBuffer == InitBuffer /\ [][NextBuffer]_vars

-----------------------------------------------------------------------------
(* A parser used for two stylesheets: Parse is called again on the parser   *)
(* once it has returned, with another stream, tree and keyframes map.       *)

MaxReuse == 2

\* the first stylesheet: nothing, a rule, and texts on which Parse ends in
\* State::Invalid before it has read a rule or a keyframe block
FirstInputs == {<<>>, RULE_AB, AT \o AT \o RULE_AB, AT_KEYFRAMES \o AT \o BLOCK_FROM}

SecondInputs == Texts(Pieces, MaxReuse)

InitReuse == InitWith(FirstInputs)

\* the caller's second call: Parse(node, keyframes, _stream) with a new stream, an
\* empty tree and an empty map; the parser's members are what the first call left
ParseAgain(s, in) ==
    [s EXCEPT !.input = in, !.stream_pos = 0, !.tree = EmptyTree, !.keyframes = <<>>,
              !.imports = <<>>, !.pc = "start"]

Reuse ==
    /\ pc = "done" /\ postprocessed = 1
    /\ \E in \in SecondInputs : \E n \in {ParseAgain(St, in)} : Becomes(n)

NextReuse ==
    \/ Begin
    \/ Rule
    \/ At
    \/ StrayClose
    \/ IdentifierOpen
    \/ IdentifierInvalid
    \/ RulesBlock
    \/ RulesClose
    \/ RulesInvalid
    \/ EndOfStream
    \/ Abort
    \/ Reuse

SpecReuse == InitReuse /\ [][NextReuse]_vars

-----------------------------------------------------------------------------
(* ParseProperties on a parser that was used before: for a Parse that       *)
(* returned at the end of its stream or in State::Invalid, or for an        *)
(* earlier ParseProperties.                                                 *)

\* declarations alone, declarations followed by `}` and more text, and a
\* quoted value
PropertyTexts ==
    {<<"t", ":", "1", ";">>,
     <<"c", ":", "2", ";", "}", "t", ":", "3", ";">>,
     <<"t", ":", "\"", "a", "\"", ";", "}", "}">>,
     <<"c", ":", "4">>}

\* ParseProperties up to its call of ReadProperties: stream = new StreamMemory(...);
\* parse_buffer and parse_buffer_pos are what the last call left
ParsePropertiesCall(s, text) ==
    [s EXCEPT !.input = text, !.stream_pos = 0, !.read_locals = InitialLocals,
              !.pc = "properties"]

\* the caller calls ParseProperties again once it has returned
ParsePropertiesAgain ==
    /\ pc = "done"
    /\ \E text \in PropertyTexts : \E n \in {ParsePropertiesCall(St, text)} : Becomes(n)

SpecLeftover ==
    /\ \E first \in FirstInputs, ck \in ChunkSizes, text \in PropertyTexts :
          \E s \in {ParsePropertiesCall(Parse(first, ck), text)} : IsState(s)
    /\ [][ReadName \/ ReadValue \/ ReadQuote \/ ReadEnd \/ ParsePropertiesAgain]_vars

-----------------------------------------------------------------------------
(* The event registry of EventSpecification.cpp.  An EventSpecification is  *)
(* the record [id, type, interruptible, bubbles, default_action_phase]; an   *)
(* EventId is the number of its enumerator, and specifications[i] of the    *)
(* code is specifications[i + 1] here.  A registry is the record            *)
(* [specifications, type_lookup].                                           *)

EventSpecification(id, type, interruptible, bubbles, default_action_phase) ==
    [id |-> id, type |-> type, interruptible |-> interruptible, bubbles |-> bubbles,
     default_action_phase |-> default_action_phase]

\* the static initializers: specifications holds `invalid`, type_lookup is empty
StaticRegistry ==
    [specifications |-> <<EventSpecification(0, "invalid", FALSE, FALSE, "None")>>,
     type_lookup |-> <<>>]

\* the rows of Initialize: type, interruptible, bubbles, default_action_phase; the
\* EventId of a row is its place in the list, counted from 0
DefinedEvents ==
   <<
      <<"invalid", FALSE, FALSE, "None">>,
      <<"mousedown", TRUE, TRUE, "TargetAndBubble">>,
      <<"mousescroll", TRUE, TRUE, "TargetAndBubble">>,
      <<"mouseover", TRUE, TRUE, "Target">>,
      <<"mouseout", TRUE, TRUE, "Target">>,
      <<"focus", FALSE, FALSE, "Target">>,
      <<"blur", FALSE, FALSE, "Target">>,
      <<"keydown", TRUE, TRUE, "TargetAndBubble">>,
      <<"keyup", TRUE, TRUE, "TargetAndBubble">>,
      <<"textinput", TRUE, TRUE, "TargetAndBubble">>,
      <<"mouseup", TRUE, TRUE, "TargetAndBubble">>,
      <<"click", TRUE, TRUE, "TargetAndBubble">>,
      <<"dblclick", TRUE, TRUE, "TargetAndBubble">>,
      <<"load", FALSE, FALSE, "None">>,
      <<"unload", FALSE, FALSE, "None">>,
      <<"show", FALSE, FALSE, "None">>,
      <<"hide", FALSE, FALSE, "None">>,
      <<"mousemove", TRUE, TRUE, "None">>,
      <<"dragmove", TRUE, TRUE, "Target">>,
      <<"drag", FALSE, TRUE, "Target">>,
      <<"dragstart", FALSE, TRUE, "Target">>,
      <<"dragover", TRUE, FALSE, "Target">>,
      <<"dragdrop", TRUE, FALSE, "Target">>,
      <<"dragout", TRUE, FALSE, "Target">>,
      <<"dragend", TRUE, TRUE, "None">>,
      <<"handledrag", FALSE, TRUE, "None">>,
      <<"resize", FALSE, FALSE, "None">>,
      <<"scroll", FALSE, TRUE, "None">>,
      <<"animationend", TRUE, TRUE, "None">>,
      <<"transitionend", TRUE, TRUE, "None">>,
      <<"change", FALSE, TRUE, "None">>,
      <<"submit", TRUE, TRUE, "None">>,
      <<"tabchange", FALSE, TRUE, "None">>,
      <<"columnadd", FALSE, TRUE, "None">>,
      <<"rowadd", FALSE, TRUE, "None">>,
      <<"rowchange", FALSE, TRUE, "None">>,
      <<"rowremove", FALSE, TRUE, "None">>,
      <<"rowupdate", FALSE, TRUE, "None">>
   >>

\* UnorderedMap::emplace: an existing key keeps its value
Emplace(lookup, type, id) ==
    IF type \in DOMAIN lookup THEN lookup
    ELSE [t \in DOMAIN lookup \cup {type} |-> IF t = type THEN id ELSE lookup[t]]

RECURSIVE EmplaceAll(_, _)
EmplaceAll(lookup, list) ==
    IF list = <<>> THEN lookup
    ELSE EmplaceAll(Emplace(lookup, list[1].type, list[1].id), Tail(list))

\* EventSpecificationInterface::Initialize
Initialize ==
    LET list == [i \in 1..Len(DefinedEvents) |->
                    EventSpecification(i - 1, DefinedEvents[i][1], DefinedEvents[i][2],
                                       DefinedEvents[i][3], DefinedEvents[i][4])]
    IN [specifications |-> list, type_lookup |-> EmplaceAll(<<>>, list)]

\* EventSpecificationInterface::Get
Get(registry, id) ==
    IF id < Len(registry.specifications) THEN registry.specifications[id + 1]
    ELSE registry.specifications[1]

\* mutation of InsertSpecification: the new entry takes the id of the last one
InsertSpecificationSameId(registry, event_type, interruptible, bubbles, default_action_phase) ==
    LET new_id == Len(registry.specifications) - 1
    IN [specifications |-> Append(registry.specifications,
                                  EventSpecification(new_id, event_type, interruptible,
                                                     bubbles, default_action_phase)),
        type_lookup |-> Emplace(registry.type_lookup, event_type, new_id)]

\* the insertion of GetOrInsert: new_id = specifications.size(), push_back, emplace
InsertSpecification(registry, event_type, interruptible, bubbles, default_action_phase) ==
    LET new_id == Len(registry.specifications)
    IN [specifications |-> Append(registry.specifications,
                                  EventSpecification(new_id, event_type, interruptible,
                                                     bubbles, default_action_phase)),
        type_lookup |-> Emplace(registry.type_lookup, event_type, new_id)]

\* EventSpecificationInterface::GetOrInsert(event_type, interruptible, bubbles,
\* default_action_phase): [registry, value]
GetOrInsert(registry, event_type, interruptible, bubbles, default_action_phase) ==
    IF event_type \in DOMAIN registry.type_lookup
    THEN [registry |-> registry, value |-> Get(registry, registry.type_lookup[event_type])]
    ELSE LET inserted == InsertSpecification(registry, event_type, interruptible, bubbles,
                                             default_action_phase)
         IN [registry |-> inserted,
             value |-> inserted.specifications[Len(inserted.specifications)]]

\* EventSpecificationInterface::GetOrInsert(event_type): the defaults of new types
GetOrInsertDefault(registry, event_type) ==
    GetOrInsert(registry, event_type, TRUE, TRUE, "None")

\* EventSpecificationInterface::GetIdOrInsert: [registry, value]
GetIdOrInsert(registry, event_type) ==
    IF event_type \in DOMAIN registry.type_lookup
    THEN [registry |-> registry, value |-> registry.type_lookup[event_type]]
    ELSE LET got == GetOrInsertDefault(registry, event_type)
         IN [registry |-> got.registry, value |-> got.value.id]

MaxCustom == 2

\* the event types asked for: two defined ones and types of the application
CustomTypes == <<"custom", "other", "third", "fourth">>

EventTypes ==
    {"invalid", "click"} \cup {CustomTypes[i] : i \in 1..Min(MaxCustom, Len(CustomTypes))}

\* the flags a caller of GetOrInsert passes for its type
CallerFlags == <<FALSE, FALSE, "Target">>

Registry == [specifications |-> specifications, type_lookup |-> type_lookup]

\* the parser takes no part
ParserUnused == IsParserState(Constructed(<<>>, READ_SIZE)) /\ read_comment = FALSE

\* the program has started: the statics are initialized
InitEvents ==
    /\ specifications = StaticRegistry.specifications
    /\ type_lookup = StaticRegistry.type_lookup
    /\ initialized = FALSE /\ returned = <<>>
    /\ ParserUnused /\ IteratorUnused

\* the registry becomes what a call made of it, and the call is recorded
Called(call, outcome) ==
    /\ specifications' = outcome.registry.specifications
    /\ type_lookup' = outcome.registry.type_lookup
    /\ returned' = [call |-> call, value |-> outcome.value]
    /\ UNCHANGED <<parser_vars, read_comment, iterator_vars>>

CallInitialize ==
    /\ Called(<<"Initialize">>, [registry |-> Initialize, value |-> <<>>])
    /\ initialized' = TRUE

CallGet ==
    /\ \E id \in {0, 11, Len(specifications) - 1, Len(specifications),
                    Len(specifications) + 1} :
          Called(<<"Get", id>>, [registry |-> Registry, value |-> Get(Registry, id)])
    /\ UNCHANGED initialized

CallGetOrInsert ==
    /\ \E event_type \in EventTypes :
          \E got \in {GetOrInsert(Registry, event_type, CallerFlags[1], CallerFlags[2],
                                  CallerFlags[3])} :
              Called(<<"GetOrInsert", event_type, CallerFlags>>, got)
    /\ UNCHANGED initialized

CallGetOrInsertDefault ==
    /\ \E event_type \in EventTypes :
          \E got \in {GetOrInsertDefault(Registry, event_type)} :
              Called(<<"GetOrInsertDefault", event_type>>, got)
    /\ UNCHANGED initialized

CallGetIdOrInsert ==
    /\ \E event_type \in EventTypes :
          \E got \in {GetIdOrInsert(Registry, event_type)} :
              Called(<<"GetIdOrInsert", event_type>>, got)
    /\ UNCHANGED initialized

NextEvents ==
    \/ CallInitialize
    \/ CallGet
    \/ CallGetOrInsert
    \/ CallGetOrInsertDefault
    \/ CallGetIdOrInsert

SpecEvents == InitEvents /\ [][NextEvents]_vars

-----------------------------------------------------------------------------
(* PropertiesIterator (PropertiesIterator.h).  A range of a PropertyMap is  *)
(* the sequence of its <<id, property>> entries in the map's order, no id   *)
(* twice; an iterator into it is the number of entries passed, the end is   *)
(* the length.  The iterator is the record [it_style, it_definition,        *)
(* iterated_properties, at_end] over the ranges style and definition.       *)

\* mutation of IsDirtyRemove: every id counts as not yet iterated
IsDirtyRemoveAlways(iterated, id) == [fresh |-> TRUE, iterated |-> iterated \cup {id}]

\* PropertiesIterator::IsDirtyRemove: [fresh, iterated]; DirtyPropertyList is a set
\* of ids with Contains and Insert
IsDirtyRemove(iterated, id) ==
    IF id \notin iterated THEN [fresh |-> TRUE, iterated |-> iterated \cup {id}]
    ELSE [fresh |-> FALSE, iterated |-> iterated]

\* PropertiesIterator::ProceedToNextValid
RECURSIVE ProceedToNextValid(_, _, _)
ProceedToNextValid(range_style, range_definition, iterator) == Strict(iterator, LAMBDA it :
    IF it.it_style < Len(range_style)
    THEN Strict(IsDirtyRemove(it.iterated_properties, range_style[it.it_style + 1][1]),
                LAMBDA d :
           IF d.fresh THEN [it EXCEPT !.iterated_properties = d.iterated]
           ELSE ProceedToNextValid(range_style, range_definition,
                                   [it EXCEPT !.iterated_properties = d.iterated,
                                              !.it_style = @ + 1]))
    ELSE IF it.it_definition < Len(range_definition)
    THEN Strict(IsDirtyRemove(it.iterated_properties,
                              range_definition[it.it_definition + 1][1]), LAMBDA d :
           IF d.fresh THEN [it EXCEPT !.iterated_properties = d.iterated]
           ELSE ProceedToNextValid(range_style, range_definition,
                                   [it EXCEPT !.iterated_properties = d.iterated,
                                              !.it_definition = @ + 1]))
    ELSE [it EXCEPT !.at_end = TRUE])

\* the constructor: the iterators at the start of their ranges, then
\* ProceedToNextValid
PropertiesIterator(range_style, range_definition) ==
    ProceedToNextValid(range_style, range_definition,
                       [it_style |-> 0, it_definition |-> 0, iterated_properties |-> {},
                        at_end |-> FALSE])

\* PropertiesIterator::operator*
Dereference(range_style, range_definition, it) ==
    IF it.it_style < Len(range_style) THEN range_style[it.it_style + 1]
    ELSE range_definition[it.it_definition + 1]

\* PropertiesIterator::operator++
Increment(range_style, range_definition, it) ==
    ProceedToNextValid(range_style, range_definition,
                       IF it.it_style < Len(range_style)
                       THEN [it EXCEPT !.it_style = @ + 1]
                       ELSE [it EXCEPT !.it_definition = @ + 1])

MaxIds == 3

\* the ranges of the maps over the property ids 1..MaxIds, in every order of
\* their entries; the property of an entry names the map it is from
RECURSIVE Ranges(_, _)
Ranges(origin, ids) ==
    {<<>>} \cup UNION {{<< <<id, <<origin, id>> >> >> \o rest : rest \in Ranges(origin, ids \ {id})} :
                       id \in ids}

It == [it_style |-> it_style, it_definition |-> it_definition,
       iterated_properties |-> iterated_properties, at_end |-> at_end]

IteratorBecomes(it) ==
    /\ it_style' = it.it_style /\ it_definition' = it.it_definition
    /\ iterated_properties' = it.iterated_properties /\ at_end' = it.at_end

\* a PropertiesIterator was constructed on two ranges
InitIterator ==
    /\ style \in Ranges("style", 1..MaxIds)
    /\ definition \in Ranges("definition", 1..MaxIds)
    /\ \E it \in {PropertiesIterator(style, definition)} :
          /\ it_style = it.it_style /\ it_definition = it.it_definition
          /\ iterated_properties = it.iterated_properties /\ at_end = it.at_end
    /\ yielded = <<>>
    /\ ParserUnused /\ EventsUnused

\* the caller's loop while the style range lasts: for (; !it.AtEnd(); ++it) use(*it)
IterateStyle ==
    /\ ~at_end /\ it_style < Len(style)
    /\ yielded' = Append(yielded, Dereference(style, definition, It))
    /\ \E it \in {Increment(style, definition, It)} : IteratorBecomes(it)
    /\ UNCHANGED <<style, definition, parser_vars, read_comment, event_vars>>

\* the caller's loop once the style range is exhausted
IterateDefinition ==
    /\ ~at_end /\ it_style >= Len(style)
    /\ yielded' = Append(yielded, Dereference(style, definition, It))
    /\ \E it \in {Increment(style, definition, It)} : IteratorBecomes(it)
    /\ UNCHANGED <<style, definition, parser_vars, read_comment, event_vars>>

SpecIterator == InitIterator /\ [][IterateStyle \/ IterateDefinition]_vars

-----------------------------------------------------------------------------
(* Keyframes at-rules with blocks that are refused: `x{t:1;}` and `x{}`     *)
(* have no valid time selector, `@keyframes k.{` and `@{` no valid          *)
(* identifier.                                                              *)

RefusedPieces ==
    {BLOCK_FROM,
     <<"x", "{", "t", ":", "1", ";", "}">>,
     <<"x", "{", "}">>,
     <<"}", "@", "k", "e", "y", "f", "r", "a", "m", "e", "s", " ", "k", ".", "{">>,
     <<"}", "@", "{">>,
     CLOSE, AT}

RefusedInputs == {AT_KEYFRAMES \o t : t \in Texts(RefusedPieces, MaxBlocks)}

InitRefused == InitWith(RefusedInputs)

SpecRefused == InitRefused /\ [][Next]_vars

-----------------------------------------------------------------------------
(* Keyframes at-rules whose blocks have lists of time selectors: `from`,    *)
(* `TO,-1%,50%` (a selector in capitals, one below 0, one valid),           *)
(* `101%,50,0.005%` (one above 100, one without `%`, one valid and within   *)
(* 0.0001 of `from`) and `5%x` (a percentage followed by a character).      *)

OffsetInputs ==
    {AT_KEYFRAMES \o t :
        t \in Texts({BLOCK_FROM,
                     <<"T", "O", ",", "-", "1", "%", ",", "5", "0", "%", "{", "c", ":", "2", ";", "}">>,
                     <<"1", "0", "1", "%", ",", "5", "0", ",", "0", ".", "0", "0", "5", "%", "{", "t", ":", "3", ";", "}">>,
                     <<"5", "%", "x", "{", "c", ":", "4", ";", "}">>,
                     CLOSE, AT}, MaxBlocks)}

SpecOffsets == InitWith(OffsetInputs) /\ [][Next]_vars

-----------------------------------------------------------------------------
(* Rules on selectors of every shape: the selector texts are made of two    *)
(* names (`e` is also a structural selector), the marks of ids, classes and *)
(* pseudo-classes and the space; the other stylesheets are those of Pieces. *)

MaxSelector == 4

SelectorInputs ==
    {selector \o <<"{", "t", ":", "1", ";", "}">> :
        selector \in Strings({"a", "e", "#", ".", ":", " "}, MaxSelector)}
    \cup Texts(Pieces, 2)

SpecSelectors == InitWith(SelectorInputs) /\ [][Next]_vars

-----------------------------------------------------------------------------
(* Stylesheets that end inside a comment: after rules, stray tokens and     *)
(* keyframes comes nothing, `/*`, `x /*}` or `/*.a{t:1;}*`.                 *)

SpecComment ==
    InitWith({t \o c : t \in Texts(Pieces, 2),
                       c \in {<<>>,
                              <<"/", "*">>,
                              <<"x", " ", "/", "*", "}">>,
                              <<"/", "*", ".", "a", "{", "t", ":", "1", ";", "}", "*">>}})
        /\ [][Next]_vars

-----------------------------------------------------------------------------
(* Stylesheets with newlines inside selectors, names, values and comments:  *)
(* a rule, a keyframe block in an open at-rule, a comment, a newline and    *)
(* stray tokens.                                                            *)

SpecNewlines ==
    InitWith(Texts({<<"a", "\n", "b", " ", ".", "x", "{", "t", "\n", ":", "1", "\n", "0", ";", "\n", "}">>,
                    AT_KEYFRAMES \o <<"f", "r", "\n", "o", "m", "\n", "{", "c", ":", "\n", "2", ";", "}">>,
                    <<"/", "*", "\n", "*", "/">>,
                    <<NL>>, CLOSE, AT}, MaxPieces))
        /\ [][Next]_vars

InitScenarios == InitWith(ScenarioInputs)

SpecScenarios == InitScenarios /\ [][Next]_vars

\* every step of the state machine is the step ParseStep computes
StepIsParseStep == [][\E n \in {ParseStep(St)} : Becomes(n)]_vars

-----------------------------------------------------------------------------
(* Properties *)

\* a step of the inner loop that handled a token: the token is token'
TokenStep == pc = "loop" /\ pc' = "loop" /\ state # "Invalid"

\* where the tokens of a selector text start: at its first character, at every
\* `#`, `.`, `:`, at every space and after every space
TokenStarts(text) ==
    {i \in 1..Len(text) : i = 1 \/ text[i] \in {"#", ".", ":", " "} \/ text[i - 1] = " "}

\* the token of a selector text that starts at i
TokenAt(text, i) ==
    LET later == {j \in TokenStarts(text) : j > i}
        stop  == IF later = {} THEN Len(text) + 1
                 ELSE CHOOSE j \in later : \A k \in later : j <= k
    IN SubSeq(text, i, stop - 1)

\* the compound selector the position i lies in: the number of spaces before it
CompoundOf(text, i) == Cardinality({j \in 1..i : text[j] = " "})

\* the starts of the class and pseudo-class tokens
Movable(text) == {i \in TokenStarts(text) : text[i] \in {".", ":"}}

\* the ways to reorder the class tokens among themselves and the pseudo-class tokens
\* among themselves, inside each compound selector
Reorders(text) ==
    {f \in [Movable(text) -> Movable(text)] :
        /\ \A i, j \in Movable(text) : f[i] = f[j] => i = j
        /\ \A i \in Movable(text) :
              text[f[i]] = text[i] /\ CompoundOf(text, f[i]) = CompoundOf(text, i)}

RECURSIVE Reordered(_, _, _)
Reordered(text, f, i) ==
    IF i > Len(text) THEN <<>>
    ELSE IF i \notin TokenStarts(text) THEN Reordered(text, f, i + 1)
    ELSE TokenAt(text, IF i \in Movable(text) THEN f[i] ELSE i) \o Reordered(text, f, i + 1)

\* the selector texts that differ from text only in the order of class components
\* or of pseudo-class components
Reorderings(text) == {Reordered(text, f, 1) : f \in Reorders(text)}

\* C1: when Parse has returned, for every selector text whose rule it has imported,
\* ImportProperties given any reordering of the classes or of the pseudo-classes
\* of that text descends to the same leaf and yields the same tree.
C1_ClassOrderSameLeaf ==
    pc = "done" =>
    \A i \in 1..Len(imports) : \A text \in Reorderings(imports[i].names) :
        LET a == ImportProperties(EmptyTree, RootNode, imports[i].names,
                                  imports[i].properties, imports[i].specificity)
            b == ImportProperties(EmptyTree, RootNode, text,
                                  imports[i].properties, imports[i].specificity)
        IN b.node = imports[i].node /\ b = a

\* two rules of one stylesheet whose selector texts differ in the order of the
\* classes were merged into one leaf
C1_Witness ==
    /\ pc = "done"
    /\ \E i, j \in 1..Len(imports) :
          /\ imports[i].names # imports[j].names
          /\ imports[j].names \in Reorderings(imports[i].names)
          /\ imports[i].node = imports[j].node
    /\ \E i \in 1..Len(imports) : Cardinality(Reorderings(imports[i].names)) > 2

\* the last import into a node that sets property n
LastImport(node, n) ==
    CHOOSE j \in 1..Len(imports) :
        /\ imports[j].node = node /\ n \in DOMAIN imports[j].properties
        /\ \A k \in (j + 1)..Len(imports) :
              ~(imports[k].node = node /\ n \in DOMAIN imports[k].properties)

\* C2: a rule later in the source is imported with a strictly greater specificity
\* than every earlier rule, and a leaf holds for each property the value and the
\* specificity of the last rule that set it there.
C2_LaterRuleWins ==
    /\ \A i, j \in 1..Len(imports) :
          imports[i].at < imports[j].at => imports[i].specificity < imports[j].specificity
    /\ \A i \in 1..Len(imports) : \A n \in DOMAIN imports[i].properties :
          /\ imports[i].node \in DOMAIN tree
          /\ n \in DOMAIN tree[imports[i].node]
          /\ tree[imports[i].node][n] =
                [value |-> imports[LastImport(imports[i].node, n)].properties[n],
                 specificity |-> imports[LastImport(imports[i].node, n)].specificity]

\* two rules set the same property of one leaf to different values and Parse has
\* returned with the value of the later one
C2_Witness ==
    /\ pc = "done"
    /\ \E i, j \in 1..Len(imports) : \E n \in DOMAIN imports[i].properties :
          /\ imports[i].at < imports[j].at
          /\ imports[i].node = imports[j].node
          /\ n \in DOMAIN imports[j].properties
          /\ imports[i].properties[n] # imports[j].properties[n]
          /\ tree[imports[i].node][n].value = imports[j].properties[n]

\* C3: rule_count is 0 when Parse starts, a `{` handled in the Global state
\* imports each selector of the rule with the count reached before it as the
\* specificity and adds exactly one to the count, and no other step changes it.
C3_RuleCount ==
    [][/\ pc = "start" => rule_count' = 0
       /\ TokenStep /\ state = "Global" /\ token' = "{" =>
             /\ rule_count' = rule_count + 1
             /\ Len(imports') >= Len(imports)
             /\ SubSeq(imports', 1, Len(imports)) = imports
             /\ \A i \in (Len(imports) + 1)..Len(imports') :
                   imports'[i].specificity = rule_count
       /\ pc = "loop" /\ ~(TokenStep /\ state = "Global" /\ token' = "{") =>
             rule_count' = rule_count /\ imports' = imports]_vars

\* Parse has returned 2 after a rule without selectors, a rule of two selectors with
\* a rejected declaration, and a keyframe block
C3_Witness ==
    /\ pc = "done" /\ rule_count = 2 /\ keyframes # <<>>
    /\ Len(imports) = 2 /\ imports[1].specificity = 1 /\ imports[2].specificity = 1
    /\ log # <<>>

\* the State the claim gives for a state and a token
Transition(from, tok) ==
    CASE from = "Global" /\ tok = "@" -> "KeyframesIdentifier"
      [] from = "Global" /\ tok # "@" -> "Global"
      [] from = "KeyframesIdentifier" /\ tok = "{" -> "KeyframesRules"
      [] from = "KeyframesIdentifier" /\ tok \in {"@", "}"} -> "Invalid"
      [] from = "KeyframesRules" /\ tok = "{" -> "KeyframesRules"
      [] from = "KeyframesRules" /\ tok = "}" -> "Global"
      [] from = "KeyframesRules" /\ tok = "@" -> "Invalid"

\* C4: the state is Global when the tokens begin; a handled token takes the state
\* to the one the table gives, nothing else changes the state, Global never
\* moves to Invalid and Invalid is never left.
C4_StateMachine ==
    /\ state = "Global"
    /\ [][/\ pc = "start" => state' = "Global"
          /\ TokenStep => token' \in TOKENS /\ state' = Transition(state, token')
          /\ pc = "loop" /\ ~TokenStep => state' = state
          /\ ~(state = "Global" /\ state' = "Invalid")
          /\ state = "Invalid" => state' = "Invalid"]_vars

\* Parse has returned in Invalid, reached from KeyframesRules of the at-rule k
C4_Witness ==
    pc = "done" /\ state = "Invalid" /\ token = "@" /\ keyframes_identifier = <<"k">>

\* the blocks a keyframes map holds, as a set per name
BlockSets(map) ==
    [n \in DOMAIN map |-> {map[n].blocks[i] : i \in 1..Len(map[n].blocks)}]

\* C5: in the Invalid state nothing more is read (the stream and the buffer stay
\* where they are) and nothing more is merged: the tree, the rule count and the
\* blocks of every named sequence are the same when Parse returns.
C5_InvalidHalts ==
    [][state = "Invalid" =>
          /\ stream_pos' = stream_pos
          /\ parse_buffer' = parse_buffer /\ parse_buffer_pos' = parse_buffer_pos
          /\ line_number' = line_number
          /\ tree' = tree /\ imports' = imports /\ rule_count' = rule_count
          /\ BlockSets(keyframes') = BlockSets(keyframes)
          /\ pc' = "done"]_vars

\* Parse has returned in Invalid with a keyframe block merged and input left unread
C5_Witness ==
    /\ pc = "done" /\ state = "Invalid"
    /\ keyframes # <<>>
    /\ Offset(Reader(St)) < Len(input)

\* the text begins with the prefix
StartsWith(text, prefix) ==
    Len(prefix) <= Len(text) /\ SubSeq(text, 1, Len(prefix)) = prefix

\* the blocks Parse has returned for the at-rule k
BlocksOfK == IF <<"k">> \in DOMAIN keyframes THEN keyframes[<<"k">>].blocks ELSE <<>>

\* a `}` is the next token while Parse is in the Global state
StrayCloseNext == pc = "loop" /\ state = "Global" /\ NextToken(St).token = "}"

\* the input without the stray `}` that is next and the text read on the way to it
WithoutStrayClose ==
    SubSeq(input, 1, Offset(Reader(St)))
        \o SubSeq(input, Offset(NextToken(St).r) + 1, Len(input))

\* what Parse leaves behind: the count returned, the state, the tree and the keyframes
Outcome(s) ==
    [rule_count |-> s.rule_count, state |-> s.state, tree |-> s.tree,
     keyframes |-> s.keyframes]

\* C6: a `}` handled in the Global state is logged and leaves the state Global and
\* rule_count, the tree and the keyframes as they were, and the rest of the input
\* is parsed as it would be had the `}` not been there: Parse ends with the count,
\* tree and keyframes of the input without it.
C6_StrayCloseSkipped ==
    /\ [](StrayCloseNext =>
             Outcome(ParseRun(St)) = Outcome(Parse(WithoutStrayClose, chunk)))
    /\ [][TokenStep /\ state = "Global" /\ token' = "}" =>
             /\ state' = "Global"
             /\ rule_count' = rule_count /\ tree' = tree /\ keyframes' = keyframes
             /\ imports' = imports
             /\ log' = Append(log, "Invalid character (stylesheet)")]_vars

\* Parse has returned 2 for a stylesheet that begins with a stray `}`: the two rules
\* after it were merged and the `}` was logged
C6_Witness ==
    /\ pc = "done" /\ StartsWith(input, CLOSE)
    /\ rule_count = 2 /\ Len(imports) >= 2
    /\ log = <<"Invalid character (stylesheet)">>

\* the blocks of a sequence are in strictly ascending order of normalized time
Ascending(blocks) ==
    \A i \in 1..(Len(blocks) - 1) :
        blocks[i].normalized_time < blocks[i + 1].normalized_time

\* C7: PostprocessKeyframes has not run while Parse is running and has run exactly
\* once when Parse has returned, in whichever state it ended, and on return the
\* blocks of every named sequence are in strictly ascending order of normalized time.
C7_PostprocessOnce ==
    /\ pc # "done" => postprocessed = 0
    /\ pc = "done" =>
          /\ postprocessed = 1
          /\ \A n \in DOMAIN keyframes : Ascending(keyframes[n].blocks)

\* Parse has returned at the end of the stream inside an at-rule whose blocks were
\* merged in descending order (`to` before `0.005%`)
C7_Witness ==
    /\ pc = "done" /\ state = "KeyframesRules"
    /\ StartsWith(input, AT_KEYFRAMES \o BLOCK_LIST)
    /\ Len(BlocksOfK) = 2
    /\ BlocksOfK[2].normalized_time = 1000000

\* C8: at every point of Parse no named sequence holds two blocks with the same
\* normalized time.
C8_NoDuplicateTime ==
    \A n \in DOMAIN keyframes : \A i, j \in 1..Len(keyframes[n].blocks) :
        keyframes[n].blocks[i].normalized_time = keyframes[n].blocks[j].normalized_time
            => i = j

\* the at-rule k was given `from`, closed, reopened and given `to, 0.005%, From`:
\* the sequence holds one block at 0 and one at 1
C8_Witness ==
    /\ pc = "done"
    /\ input = AT_KEYFRAMES \o BLOCK_FROM \o REOPEN_K \o BLOCK_LIST
    /\ Len(BlocksOfK) = 2
    /\ BlocksOfK[1].normalized_time = 0

\* the blocks the sequence of the at-rule being parsed holds
CurrentBlocks ==
    IF keyframes_identifier \in DOMAIN keyframes
    THEN keyframes[keyframes_identifier].blocks ELSE <<>>

\* C9: when a keyframe block is parsed for a time offset at which the sequence
\* already has a block, that block afterwards holds exactly the declarations of
\* the block just parsed.
C9_DuplicateReplaced ==
    [][TokenStep /\ state = "KeyframesRules" /\ token' = "{"
          /\ IsValidIdentifier(keyframes_identifier) =>
          LET tk     == NextToken(St)
              later  == ReadProperties(input, chunk, tk.r).properties
              values == RuleValues(ExpandString(tk.buffer, ","))
          IN \A i \in 1..Len(values) :
                LET it == FindBlock(CurrentBlocks, values[i])
                IN it # 0 =>
                      keyframes'[keyframes_identifier].blocks[it].properties
                          = Import(EmptyDictionary, later)]_vars

\* the set of the property names of the blocks of a sequence
BlockNames(blocks) == UNION {DOMAIN blocks[i].properties : i \in 1..Len(blocks)}

\* C10: when Parse has returned, property_names of every named sequence is strictly
\* sorted (so without duplicates) and lists exactly the properties that a block of
\* the sequence holds.
C10_PropertyNames ==
    pc = "done" =>
        \A n \in DOMAIN keyframes :
            LET names == keyframes[n].property_names
            IN /\ \A i \in 1..(Len(names) - 1) : StrLess(names[i], names[i + 1])
               /\ {names[i] : i \in 1..Len(names)} = BlockNames(keyframes[n].blocks)

\* the block `from{t:1;}` was replaced by the block of `to, 0.005%, From {c:2;}`:
\* both blocks of the sequence hold c, and property_names lists c once and no t
C10_Witness ==
    /\ pc = "done"
    /\ StartsWith(input, AT_KEYFRAMES \o BLOCK_FROM)
    /\ Len(BlocksOfK) = 2
    /\ keyframes[<<"k">>].property_names = << <<"c">> >>

\* an iteration of ReadProperties' loop is about to read this character
Reads(c) == pc = "properties" /\ NextCharacter(St).ok /\ NextCharacter(St).ch = c

\* the value text ends inside a quoted span: a `"` opens a span, and the next `"`
\* that does not follow a backslash closes it
RECURSIVE InQuotedSpan(_, _, _)
InQuotedSpan(text, i, inside) ==
    IF i > Len(text) THEN inside
    ELSE InQuotedSpan(text, i + 1,
            IF text[i] # QUOTE_CHAR THEN inside
            ELSE IF ~inside THEN TRUE
            ELSE i > 1 /\ text[i - 1] = "\\")

\* C11: a `;` or `}` read while the value text stands inside a quoted span is
\* appended to the value and neither commits the declaration (nothing is forwarded
\* to the property parser, the dictionary is unchanged) nor ends ReadProperties.
C11_QuotedPunctuationKept ==
    [][\A c \in {";", "}"} :
          /\ Reads(c)
          /\ read_locals.state \in {"VALUE", "QUOTE"}
          /\ InQuotedSpan(read_locals.value, 1, FALSE)
          => /\ pc' = "properties"
             /\ read_locals'.value = Append(read_locals.value, c)
             /\ read_locals'.forwarded = read_locals.forwarded
             /\ read_locals'.properties = read_locals.properties]_vars

\* C12: in the Quote state a `"` that follows a backslash stays in the Quote state,
\* and a `"` that follows any other character returns to the Value state.
C12_QuoteEscape ==
    [][Reads(QUOTE_CHAR) /\ read_locals.state = "QUOTE" =>
          read_locals'.state =
              IF read_locals.previous_character = "\\" THEN "QUOTE" ELSE "VALUE"]_vars

\* the index of the first c in the text, Len(text) + 1 when it has none
FirstIndex(text, c) ==
    IF \E i \in 1..Len(text) : text[i] = c
    THEN CHOOSE i \in 1..Len(text) : text[i] = c /\ \A j \in 1..(i - 1) : text[j] # c
    ELSE Len(text) + 1

\* the index of the last c in the text, 0 when it has none
LastIndex(text, c) ==
    IF \E i \in 1..Len(text) : text[i] = c
    THEN CHOOSE i \in 1..Len(text) : text[i] = c /\ \A j \in (i + 1)..Len(text) : text[j] # c
    ELSE 0

\* the declarations of the rule body that starts the text: the texts that end at a
\* `;` before the closing `}`, without the whitespace around them
Declarations(text) ==
    LET body == SubSeq(text, 1, FirstIndex(text, "}") - 1)
    IN ExpandString(SubSeq(body, 1, LastIndex(body, ";") - 1), ";")

\* the name and the value of a declaration that has a colon
NameOf(item) == StripWhitespace(SubSeq(item, 1, FirstIndex(item, ":") - 1))
ValueOf(item) == StripWhitespace(SubSeq(item, FirstIndex(item, ":") + 1, Len(item)))

\* a declaration is dropped when it is not empty and has no colon, or when the
\* property parser rejects it
IsDropped(item) ==
    /\ item # <<>>
    /\ \/ FirstIndex(item, ":") > Len(item)
       \/ ~ParsePropertyDeclaration(EmptyDictionary, NameOf(item), ValueOf(item)).ok

\* the dictionary of the declarations that are not dropped
RECURSIVE Kept(_)
Kept(items) ==
    IF items = <<>> THEN EmptyDictionary
    ELSE LET item == items[Len(items)]
             before == Kept(SubSeq(items, 1, Len(items) - 1))
         IN IF item = <<>> \/ IsDropped(item) THEN before
            ELSE SetProperty(before, NameOf(item), ValueOf(item))

\* the stream from the reader's position on
Unread(r) == SubSeq(input, Offset(r) + 1, Len(input))

\* the imports a step has added
NewImports == {imports'[i] : i \in (Len(imports) + 1)..Len(imports')}

\* C13: when a rule block is read, each declaration that has no colon or that the
\* property parser rejects adds one warning and nothing else, the selectors are
\* given exactly the other declarations of the body, and the block is counted.
C13_MalformedDeclarationDropped ==
    [][TokenStep /\ state = "Global" /\ token' = "{" =>
          LET items == Declarations(Unread(NextToken(St).r))
          IN /\ rule_count' = rule_count + 1
             /\ \A imp \in NewImports : imp.properties = Kept(items)
             /\ Len(log') = Len(log)
                   + Cardinality({i \in 1..Len(items) : IsDropped(items[i])})]_vars

\* `.x { top 1px; }` was parsed, then `.x{d:1;top:2px;}`: the first rule gave the
\* leaf nothing, the second gave it top alone, each logged its warning, and Parse
\* returned 2
C13_Witness ==
    /\ pc = "done" /\ input = SCENARIO_NO_COLON \o RULE_REJECTED
    /\ rule_count = 2
    /\ Len(imports) = 2
    /\ imports[1].properties = EmptyDictionary
    /\ DOMAIN imports[2].properties = {<<"t", "o", "p">>}
    /\ imports[1].node = imports[2].node
    /\ DOMAIN tree[imports[1].node] = {<<"t", "o", "p">>}
    /\ log = <<"Found name with no value", "Syntax error parsing property declaration">>

\* the nodes of the scenario `.foo { color: red; }`
FOO_BELOW_ROOT == << <<"CLASS", <<"f", "o", "o">> >> >>
FOO_BELOW_TAG == << <<"TAG", <<>> >>, <<"CLASS", <<"f", "o", "o">> >> >>

\* color = red at specificity 0
COLOR_RED ==
    <<"c", "o", "l", "o", "r">> :> [value |-> <<"r", "e", "d">>, specificity |-> 0]

\* C17 as stated: `.foo { color: red; }` parsed into an empty tree gives the one
\* path root -> Class(foo), the class node a child of the root and holding
\* color = red at specificity 0, and Parse returns 1.
C17_ClassChildOfRoot ==
    pc = "done" /\ input = SCENARIO_FOO =>
        /\ rule_count = 1
        /\ DOMAIN tree = {RootNode, FOO_BELOW_ROOT}
        /\ tree[FOO_BELOW_ROOT] = COLOR_RED

\* C17 amended: `.foo { color: red; }` parsed into an empty tree gives the one path
\* root -> Tag("") -> Class(foo): the class node is the child of a tag node with the
\* empty name, it holds color = red at specificity 0, the other two nodes hold
\* nothing, and Parse returns 1.
C17_ClassBelowEmptyTag ==
    pc = "done" /\ input = SCENARIO_FOO =>
        /\ rule_count = 1
        /\ DOMAIN tree = {RootNode, SubSeq(FOO_BELOW_TAG, 1, 1), FOO_BELOW_TAG}
        /\ tree[FOO_BELOW_TAG] = COLOR_RED
        /\ tree[SubSeq(FOO_BELOW_TAG, 1, 1)] = EmptyDictionary
        /\ tree[RootNode] = EmptyDictionary

\* Parse has returned for the stylesheet `.foo { color: red; }`
C17_Witness ==
    /\ pc = "done" /\ input = SCENARIO_FOO
    /\ Len(imports) = 1 /\ imports[1].names = <<".", "f", "o", "o">>
    /\ log = <<>>

\* C18: a rule block read in the Global state imports each selector of its
\* comma-separated list, in order, into the leaf of that selector, every one with
\* the same dictionary and with the specificity rule_count had before the block;
\* each leaf then holds every property of the dictionary at that specificity, and
\* rule_count has grown by one.
C18_SelectorListOneRule ==
    [][TokenStep /\ state = "Global" /\ token' = "{" =>
          LET names == ExpandString(pre_token_str', ",")
              first == Len(imports)
          IN /\ rule_count' = rule_count + 1
             /\ Len(imports') = first + Len(names)
             /\ \A k \in 1..Len(names) :
                   LET imp == imports'[first + k]
                   IN /\ imp.names = names[k]
                      /\ imp.properties = imports'[first + 1].properties
                      /\ imp.specificity = rule_count
                      /\ imp.node = ImportProperties(EmptyTree, RootNode, names[k],
                                                     EmptyDictionary, 0).node
                      /\ \A n \in DOMAIN imp.properties :
                            tree'[imp.node][n] = [value |-> imp.properties[n],
                                                  specificity |-> rule_count]]_vars

\* `#a, #b { top: 1px; }` was parsed: the leaves Id(a) and Id(b) hold top = 1px at
\* specificity 0 and Parse returned 1
C18_Witness ==
    /\ pc = "done" /\ input = SCENARIO_IDS
    /\ rule_count = 1
    /\ Len(imports) = 2
    /\ imports[1].node = << <<"TAG", <<>> >>, <<"ID", <<"a">> >> >>
    /\ imports[2].node = << <<"TAG", <<>> >>, <<"ID", <<"b">> >> >>
    /\ \A i \in 1..2 :
          tree[imports[i].node] =
              <<"t", "o", "p">> :> [value |-> <<"1", "p", "x">>, specificity |-> 0]

\* the characters the reader has yet to pass: the rest of parse_buffer and the
\* rest of the stream
Upcoming ==
    SubSeq(parse_buffer, parse_buffer_pos + 1, Len(parse_buffer))
        \o SubSeq(input, stream_pos + 1, Len(input))

\* a step of a scanner that received the character c from ReadCharacter
Returned(c) ==
    /\ pc = "find"
    /\ \/ pc' = "find" /\ pre_token_str' = Append(pre_token_str, c)
       \/ pc' = "found" /\ token' = c

\* the index after the first `*/` of text at or after index j, Len(text) + 1 when
\* there is none
RECURSIVE CommentEnd(_, _)
CommentEnd(text, j) ==
    IF j + 1 > Len(text) THEN Len(text) + 1
    ELSE IF text[j] = "*" /\ text[j + 1] = "/" THEN j + 2
    ELSE CommentEnd(text, j + 1)

OpensComment(text) == Len(text) >= 2 /\ text[1] = "/" /\ text[2] = "*"

\* text without the newlines and comments it begins with; a comment is a `/*` up
\* to and including the first `*/` that follows it
RECURSIVE SkipComments(_)
SkipComments(text) ==
    IF text = <<>> THEN <<>>
    ELSE IF text[1] = NL THEN SkipComments(Tail(text))
    ELSE IF OpensComment(text)
    THEN SkipComments(SubSeq(text, CommentEnd(text, 3), Len(text)))
    ELSE text

\* the first n characters of text end outside a comment
RECURSIVE OutsideComment(_, _, _)
OutsideComment(text, i, n) ==
    IF i >= n + 1 THEN i = n + 1
    ELSE IF OpensComment(SubSeq(text, i, Len(text)))
    THEN OutsideComment(text, CommentEnd(text, i + 2), n)
    ELSE OutsideComment(text, i + 1, n)

\* the number of newlines of text
RECURSIVE Newlines(_)
Newlines(text) ==
    IF text = <<>> THEN 0
    ELSE (IF text[1] = NL THEN 1 ELSE 0) + Newlines(Tail(text))

\* what a reader step has passed
Passed == SubSeq(Upcoming, 1, Len(Upcoming) - Len(Upcoming'))

\* C14: a read that starts outside a comment returns the first character that
\* follows the newlines and comments ahead of it, a comment being a `/*` up to and
\* including the first `*/` after it, and leaves the reader right after that
\* character; when only newlines and comments are ahead the read fails.
C14_CommentsSkipped ==
    [][pc = "find" /\ OutsideComment(input, 1, Len(input) - Len(Upcoming)) =>
          LET ahead == SkipComments(Upcoming)
          IN IF ahead = <<>> THEN pc' = "done"
             ELSE Returned(ahead[1]) /\ Upcoming' = Tail(ahead)]_vars

\* C15: line_number never decreases, every step of the reader adds to it the
\* number of newlines it passes, and it is the number of newlines of the stream
\* once the stream is consumed.
C15_LineNumberCountsNewlines ==
    [][/\ line_number' >= line_number
       /\ pc = "find" => line_number' = line_number + Newlines(Passed)
       /\ pc' = "done" /\ Upcoming' = <<>> => line_number' = Newlines(input)]_vars

\* C16: what the reader has yet to pass is always an end of the stream's text; a
\* read that starts on a `/` not followed by `*` hands `/` to the scanner and
\* leaves the reader on the character after the `/`, and a read that starts on
\* any other character but a newline hands over that character and passes it.
C16_LoneSlashReturnedOnce ==
    [][pc = "find" =>
          LET ahead == Upcoming
          IN /\ ahead = SubSeq(input, Len(input) - Len(ahead) + 1, Len(input))
             /\ ahead # <<>> /\ ahead[1] = "/" /\ ~OpensComment(ahead) =>
                   Returned("/") /\ Upcoming' = Tail(ahead)
             /\ ahead # <<>> /\ ahead[1] \notin {"/", NL} =>
                   Returned(ahead[1]) /\ Upcoming' = Tail(ahead)]_vars

\* `//` was read from a stream of one-byte chunks: the first slash was the last
\* byte of its chunk, the second one the last byte of the stream, and the scanner
\* received both
C16_Witness ==
    /\ pc = "done" /\ chunk = 1
    /\ input = <<"/", "/">>
    /\ pre_token_str = input

\* C19: whenever Parse returns, on a constructed parser or on one that has parsed
\* another stylesheet before and was left in any state by it, the tree, the
\* keyframes map and the rule count are those of Parse run on a constructed parser
\* over the same stream.
C19_ParseIndependentOfEarlierUse ==
    pc = "done" =>
        LET fresh == Parse(input, chunk)
        IN /\ tree = fresh.tree
           /\ keyframes = fresh.keyframes
           /\ rule_count = fresh.rule_count

\* the parser's first Parse ended in State::Invalid with a warning, its second
\* Parse read the rule `x .b.a{t:2;}` from another stream and returned 1
C19_Witness ==
    /\ pc = "done" /\ postprocessed = 2
    /\ input = RULE_BA /\ chunk = READ_SIZE
    /\ log = <<"Invalid character (keyframes)">>
    /\ rule_count = 1
    /\ Len(imports) = 1

\* the warnings a step has logged
NewWarnings == {log'[i] : i \in (Len(log) + 1)..Len(log')}

\* the block read by a step of KeyframesRules is one that is refused: the
\* identifier of its at-rule is invalid or its selector list has no valid selector
RefusedBlock ==
    /\ TokenStep /\ state = "KeyframesRules" /\ token' = "{"
    /\ \/ ~IsValidIdentifier(keyframes_identifier)
       \/ RuleValues(ExpandString(pre_token_str', ",")) = <<>>

\* C20: a keyframe block whose at-rule identifier is invalid or whose selector
\* list has no valid selector is logged as such, leaves the keyframes map as it
\* was, and leaves the parser in KeyframesRules.
C20_RefusedBlockLoggedAndDropped ==
    [][RefusedBlock =>
          /\ NewWarnings \cap {"Invalid keyframes identifier",
                               "Invalid keyframes rule(s)"} # {}
          /\ keyframes' = keyframes
          /\ state' = "KeyframesRules"]_vars

\* the texts of a sequence of texts, one after the other
RECURSIVE Flatten(_)
Flatten(texts) == IF texts = <<>> THEN <<>> ELSE texts[1] \o Flatten(Tail(texts))

\* the index of the first c of text, 0 when it has none
IndexOf(text, c) ==
    IF \E i \in 1..Len(text) : text[i] = c
    THEN CHOOSE i \in 1..Len(text) : text[i] = c /\ \A j \in 1..(i - 1) : text[j] # c
    ELSE 0

\* text cut after each `}`
RECURSIVE SplitBlocks(_)
SplitBlocks(text) ==
    IF text = <<>> THEN <<>>
    ELSE LET k == IF IndexOf(text, "}") = 0 THEN Len(text) ELSE IndexOf(text, "}")
         IN <<SubSeq(text, 1, k)>> \o SplitBlocks(SubSeq(text, k + 1, Len(text)))

\* the source of the blocks of the at-rule k the input opens with
SourceBlocks == SplitBlocks(SubSeq(input, Len(AT_KEYFRAMES) + 1, Len(input)))

\* the selector list of a block's source, its items and its body
SelectorList(block) == SubSeq(block, 1, IndexOf(block, "{") - 1)
SelectorItems(block) == ExpandString(SelectorList(block), ",")
BlockBody(block) == SubSeq(block, IndexOf(block, "{"), Len(block))

\* the items joined by commas
RECURSIVE Join(_)
Join(items) ==
    IF items = <<>> THEN <<>>
    ELSE IF Len(items) = 1 THEN items[1]
    ELSE items[1] \o <<",">> \o Join(Tail(items))

Orders(n) == {f \in [1..n -> 1..n] : \A i, j \in 1..n : f[i] = f[j] => i = j}

\* the input is an at-rule of keyframe blocks only
OnlyBlocks ==
    /\ StartsWith(input, AT_KEYFRAMES)
    /\ \A i \in 1..Len(SourceBlocks) :
          LET block == SourceBlocks[i]
          IN IndexOf(block, "{") > 1 /\ IndexOf(block, "@") = 0
                /\ block[Len(block)] = "}"

\* the time offsets of the input's selectors, in source order
SourceOffsets ==
    Flatten([i \in 1..Len(SourceBlocks) |-> RuleValues(SelectorItems(SourceBlocks[i]))])

\* the input with its blocks in another order, or with the selectors of one of
\* its lists in another order
Permuted ==
    {AT_KEYFRAMES \o Flatten([i \in 1..Len(SourceBlocks) |-> SourceBlocks[f[i]]]) :
        f \in Orders(Len(SourceBlocks))}
    \cup UNION {
        {AT_KEYFRAMES \o Flatten([SourceBlocks EXCEPT ![k] =
              Join([i \in 1..Len(SelectorItems(@)) |-> SelectorItems(@)[f[i]]])
                 \o BlockBody(@)]) :
            f \in Orders(Len(SelectorItems(SourceBlocks[k])))} :
        k \in 1..Len(SourceBlocks)}

\* every reordering of the input gives the keyframes map Parse has returned
SameWhenPermuted == \A text \in Permuted : Parse(text, chunk).keyframes = keyframes

RECURSIVE Components(_, _, _)
Components(compound, i, mark) ==
    IF i > Len(compound) THEN <<>>
    ELSE (IF compound[i] = mark THEN <<Tail(TokenAt(compound, i))>> ELSE <<>>)
            \o Components(compound, i + 1, mark)

IsStructural(name) == GetSelector(name)
IsOrdinary(name) == ~GetSelector(name)

\* the children of one type for a list of names
Children(type, names) == [i \in 1..Len(names) |-> <<type, names[i]>>]

\* the descent for one compound selector: the tag, the id when it has one, the
\* classes in sorted order, the structural pseudo-classes in sorted order, the
\* ordinary pseudo-classes in sorted order
ExpectedBranch(compound) ==
    LET tag == IF compound # <<>> /\ compound[1] \notin {"#", ".", ":"}
               THEN TokenAt(compound, 1) ELSE <<>>
        ids == Components(compound, 1, "#")
        id == IF ids = <<>> THEN <<>> ELSE ids[Len(ids)]
        colon == Components(compound, 1, ":")
    IN Children("TAG", <<tag>>)
          \o (IF id # <<>> THEN Children("ID", <<id>>) ELSE <<>>)
          \o Children("CLASS", SortStrings(Components(compound, 1, ".")))
          \o Children("STRUCTURAL_PSEUDO_CLASS", SortStrings(SelectSeq(colon, IsStructural)))
          \o Children("PSEUDO_CLASS", SortStrings(SelectSeq(colon, IsOrdinary)))

\* the leaf of a selector: the descents of its compounds, one after the other
ExpectedLeaf(names) ==
    LET compounds == ExpandString(names, " ")
    IN Flatten([i \in 1..Len(compounds) |-> ExpectedBranch(compounds[i])])

\* C22: the leaf a rule's selector is imported into lies, compound after compound,
\* below a tag child (with an empty name when the compound has no tag), then the
\* id child when the compound has an id, then the class children in sorted order,
\* then the structural pseudo-class children in sorted order, then the ordinary
\* pseudo-class children in sorted order; every node on the way exists.
C22_DescentOrder ==
    [][TokenStep /\ state = "Global" /\ token' = "{" =>
          \A imp \in NewImports :
              /\ imp.node = ExpectedLeaf(imp.names)
              /\ \A k \in 0..Len(imp.node) : SubSeq(imp.node, 1, k) \in DOMAIN tree']_vars

\* the rule of the selector `.e.a` was parsed: its leaf is the
\* class child e of the class child a of the unnamed tag child of the root
C22_Witness ==
    /\ pc = "done"
    /\ StartsWith(input, <<".", "e", ".", "a", "{">>)
    /\ Len(imports) = 1
    /\ imports[1].node = << <<"TAG", <<>> >>, <<"CLASS", <<"a">> >>, <<"CLASS", <<"e">> >> >>

\* C24: no node of the tree other than a tag node has an empty name.
C24_NoEmptyName ==
    \A node \in DOMAIN tree : \A k \in 1..Len(node) :
        node[k][1] # "TAG" => node[k][2] # <<>>

\* the offset a time selector stands for, as a sequence of none or one: `from`,
\* `to`, or digits with an optional fraction followed by `%` and nothing else,
\* between 0% and 100%, in any case of letters
SelectorOffset(item) ==
    LET rule == ToLower(item)
        sc == ScanPercent(rule)
    IN IF rule = <<"f", "r", "o", "m">> THEN <<0>>
       ELSE IF rule = <<"t", "o">> THEN <<1000000>>
       ELSE IF rule # <<>> /\ rule[1] \in Digits \cup {"."} /\ sc.converted = 1
               /\ sc.count = Len(rule) /\ sc.value <= 1000000
       THEN <<sc.value>>
       ELSE <<>>

\* the normalized times of the blocks of the at-rule being parsed
Times(blocks) == {blocks[i].normalized_time : i \in 1..Len(blocks)}

\* C23: a block with an accepted declaration in an at-rule with a valid name
\* gives each valid selector of its list (`from` 0, `to` 1, `p%` p/100) a block
\* holding its declarations, no selector that is anything else gives a block, and
\* every block of the map has a normalized time from 0 to 1.
C23_SelectorOffsets ==
    [][TokenStep /\ state = "KeyframesRules" /\ token' = "{"
          /\ IsValidIdentifier(keyframes_identifier) =>
          LET tk == NextToken(St)
              properties == ReadProperties(input, chunk, tk.r).properties
              items == ExpandString(tk.buffer, ",")
              offsets == Flatten([i \in 1..Len(items) |-> SelectorOffset(items[i])])
              after == IF keyframes_identifier \in DOMAIN keyframes'
                       THEN keyframes'[keyframes_identifier].blocks ELSE <<>>
          IN /\ properties # EmptyDictionary =>
                   /\ \A i \in 1..Len(offsets) : \E k \in 1..Len(after) :
                         /\ SameTime(after[k].normalized_time, offsets[i])
                         /\ after[k].properties = Import(EmptyDictionary, properties)
                   /\ \A time \in Times(after) \ Times(CurrentBlocks) :
                         \E i \in 1..Len(offsets) : time = offsets[i]
             /\ \A time \in Times(after) : time >= 0 /\ time <= 1000000]_vars

\* C25: a `}` read in the VALUE state ends ReadProperties with one warning; the
\* pending name and value are not forwarded to the property parser and the
\* dictionary stays as it was.
C25_CloseInValueDropsDeclaration ==
    [][Reads("}") /\ read_locals.state = "VALUE" =>
          /\ pc' = "done"
          /\ read_locals'.log = Append(read_locals.log, "End of rule encountered (value)")
          /\ read_locals'.forwarded = read_locals.forwarded
          /\ read_locals'.properties = read_locals.properties]_vars

\* `t:a}` was read: the declaration of t was not forwarded and the dictionary is empty
C25_Witness ==
    /\ pc = "done"
    /\ StartsWith(input, <<"t", ":", "a", "}">>)
    /\ read_locals.state = "VALUE" /\ read_locals.value = <<"a">>
    /\ read_locals.forwarded = <<>>
    /\ read_locals.properties = EmptyDictionary
    /\ read_locals.log = <<"End of rule encountered (value)">>

\* C26: an iteration of ReadProperties ends the read in two cases only: it reads
\* a `}` that is outside a quoted span, and the reader is left on the character
\* after it, or the stream is at its end, and a warning is logged exactly when a
\* name or a value is pending; in every other case the read goes on.
C26_ReadPropertiesStops ==
    [][pc = "properties" =>
          LET nc == NextCharacter(St)
              inside == /\ read_locals.state \in {"VALUE", "QUOTE"}
                        /\ InQuotedSpan(read_locals.value, 1, FALSE)
          IN IF ~nc.ok
             THEN /\ pc' = "done"
                  /\ read_locals'.log =
                        IF read_locals.name # <<>> \/ read_locals.value # <<>>
                        THEN Append(read_locals.log, "Invalid property declaration")
                        ELSE read_locals.log
             ELSE IF nc.ch = "}" /\ ~inside
             THEN pc' = "done" /\ Upcoming' = Tail(Upcoming)
             ELSE pc' = "properties"]_vars

\* what the reader has yet to pass holds no token and no slash up to a `/*`
\* after which there is no `*/`
OpenCommentAhead ==
    \E i \in 1..(Len(Upcoming) - 1) :
        /\ Upcoming[i] = "/" /\ Upcoming[i + 1] = "*"
        /\ \A j \in 1..(i - 1) : Upcoming[j] \notin TOKENS \cup {"/"}
        /\ CommentEnd(Upcoming, i + 2) = Len(Upcoming) + 1

\* C27: when FindToken runs into a comment that the stream ends in, it finds no
\* token, nothing is logged, and Parse returns: the tree, the rule count and the
\* blocks merged so far are kept and the keyframes are post-processed.
C27_OpenCommentEndsParse ==
    [][pc = "loop" /\ state # "Invalid" /\ OpenCommentAhead =>
          /\ pc' = "done" /\ token' = NoToken
          /\ log' = log
          /\ tree' = tree /\ imports' = imports /\ rule_count' = rule_count
          /\ keyframes' = PostprocessKeyframes(keyframes)
          /\ postprocessed' = postprocessed + 1]_vars

\* Parse has returned 1 for `x .a.b{t:1;}` followed by an at-rule with the block
\* `from` and the comment `/*.a{t:1;}*` that the stream ends in
C27_Witness ==
    /\ pc = "done" /\ state = "KeyframesRules"
    /\ input = RULE_AB \o AT_KEYFRAMES \o BLOCK_FROM
                  \o <<"/", "*", ".", "a", "{", "t", ":", "1", ";", "}", "*">>
    /\ rule_count = 1 /\ Len(imports) = 1
    /\ Len(BlocksOfK) = 1
    /\ keyframes[<<"k">>].property_names = << <<"t">> >>
    /\ log = <<>>

\* the text the reader has passed
Consumed == SubSeq(input, 1, Len(input) - Len(Upcoming))

\* the at-rule being parsed is k, opened again after an earlier at-rule
Reopened ==
    /\ keyframes_identifier = <<"k">>
    /\ \E i \in 1..Len(Consumed) :
          StartsWith(SubSeq(Consumed, i, Len(Consumed)), REOPEN_K)

\* C28: a block parsed in a later at-rule of the same name works on the sequence
\* of the earlier one: each offset of its list afterwards has a block holding the
\* declarations of the later block, whether the sequence had a block there or
\* not, and the blocks of the sequence at other offsets remain as they were.
C28_AtRulesAccumulate ==
    [][TokenStep /\ state = "KeyframesRules" /\ token' = "{" /\ Reopened =>
          LET tk     == NextToken(St)
              later  == Import(EmptyDictionary, ReadProperties(input, chunk, tk.r).properties)
              values == RuleValues(ExpandString(tk.buffer, ","))
              after  == IF keyframes_identifier \in DOMAIN keyframes'
                        THEN keyframes'[keyframes_identifier].blocks ELSE <<>>
          IN /\ \A i \in 1..Len(values) : \E k \in 1..Len(after) :
                   /\ SameTime(after[k].normalized_time, values[i])
                   /\ after[k].properties = later
             /\ \A j \in 1..Len(CurrentBlocks) :
                   (\A i \in 1..Len(values) :
                       ~SameTime(CurrentBlocks[j].normalized_time, values[i]))
                       => \E k \in 1..Len(after) : after[k] = CurrentBlocks[j]]_vars

\* text without its newlines
WithoutNewlines(text) == SelectSeq(text, LAMBDA c : c # NL)

\* a reader that has read nothing
FreshReader == [buf |-> <<>>, pos |-> 0, spos |-> 0, line |-> 1]

\* what a reader r over the stream of the parser has yet to pass
Ahead(r) == SubSeq(r.buf, r.pos + 1, Len(r.buf)) \o SubSeq(input, r.spos + 1, Len(input))

\* C29: no newline reaches the text FindToken gathers or the token it returns,
\* nor the names and values ReadProperties gathers: both give what they give on
\* the same text with its newlines taken out.
C29_NewlinesDropped ==
    [][TokenStep =>
          LET tk    == NextToken(St)
              plain == FindToken(WithoutNewlines(Upcoming), READ_SIZE, FreshReader)
          IN /\ tk.token # NL /\ \A i \in 1..Len(tk.buffer) : tk.buffer[i] # NL
             /\ tk.token = plain.token /\ tk.buffer = plain.buffer
             /\ pre_token_str' = tk.buffer
             /\ tk.token = "{" /\ state \in {"Global", "KeyframesRules"} =>
                   LET body == ReadProperties(input, chunk, tk.r)
                       bare == ReadProperties(WithoutNewlines(Ahead(tk.r)), READ_SIZE,
                                              FreshReader)
                   IN /\ body.properties = bare.properties
                      /\ body.log = bare.log
                      /\ \A n \in DOMAIN body.properties :
                            /\ \A i \in 1..Len(n) : n[i] # NL
                            /\ \A i \in 1..Len(body.properties[n]) :
                                  body.properties[n][i] # NL]_vars

\* the rule `a<newline>b .x{t<newline>:1<newline>0;<newline>}` was imported for
\* the tag ab with the declaration t:10
C29_Witness ==
    /\ pc = "done" /\ rule_count = 1 /\ Len(input) > 12 /\ input[2] = NL
    /\ Len(imports) = 1
    /\ imports[1].names = <<"a", "b", " ", ".", "x">>
    /\ imports[1].properties = (<<"t">> :> <<"1", "0">>)
    /\ log = <<>>

\* C30: when ReadProperties returns to ParseProperties, the dictionary it filled
\* and the warnings it logged are those of reading the given text alone, whatever
\* the parser's buffer held when ParseProperties was called.
C30_ParsePropertiesReadsOnlyItsText ==
    pc = "done" =>
        LET alone == ReadProperties(input, chunk, FreshReader)
        IN /\ read_locals.properties = alone.properties
           /\ read_locals.log = alone.log

\* the types of the specifications of the registry
RegisteredTypes == {specifications[i].type : i \in 1..Len(specifications)}

\* C31: once Initialize has run, whatever calls follow, every specification has
\* its index as id, no two specifications have the same type, and type_lookup
\* maps exactly the types of the specifications, each to the id of its
\* specification.
C31_RegistryConsistent ==
    initialized =>
        /\ \A i \in 1..Len(specifications) : specifications[i].id = i - 1
        /\ \A i, j \in 1..Len(specifications) :
              specifications[i].type = specifications[j].type => i = j
        /\ DOMAIN type_lookup = RegisteredTypes
        /\ \A i \in 1..Len(specifications) :
              type_lookup[specifications[i].type] = specifications[i].id

\* after Initialize the types custom and other were inserted, in this order
C31_Witness ==
    /\ initialized
    /\ Len(specifications) = Len(DefinedEvents) + 2
    /\ specifications[Len(DefinedEvents) + 1].type = "custom"
    /\ type_lookup["other"] = Len(DefinedEvents) + 1

\* the specification a call for an unregistered type has to append: the flags of
\* the call for GetOrInsert with flags, the defaults otherwise
Appended(call) ==
    IF call[1] = "GetOrInsert"
    THEN EventSpecification(Len(specifications), call[2], call[3][1], call[3][2], call[3][3])
    ELSE EventSpecification(Len(specifications), call[2], TRUE, TRUE, "None")

\* what a call that returns a specification, or its id for GetIdOrInsert, returns
\* for the specification spec
ReturnOf(call, spec) == IF call[1] = "GetIdOrInsert" THEN spec.id ELSE spec

\* the step is a call that behaves as a lookup-or-insert and as a bounded Get
\* should: for a registered type nothing changes and the value is that of the one
\* specification of the type, for another type one specification is appended
\* with the registry's size as id and returned; Get of an id outside the registry
\* gives the specification at index 0, which is `invalid`
IdempotentCall ==
    LET call == returned'.call
    IN /\ call[1] \in {"GetOrInsert", "GetOrInsertDefault", "GetIdOrInsert"} =>
             IF call[2] \in RegisteredTypes
             THEN /\ specifications' = specifications /\ type_lookup' = type_lookup
                  /\ \E i \in 1..Len(specifications) :
                        /\ specifications[i].type = call[2]
                        /\ returned'.value = ReturnOf(call, specifications[i])
             ELSE /\ specifications' = Append(specifications, Appended(call))
                  /\ returned'.value = ReturnOf(call, Appended(call))
                  /\ type_lookup'[call[2]] = Len(specifications)
       /\ call[1] = "Get" =>
             /\ specifications' = specifications /\ type_lookup' = type_lookup
             /\ call[2] >= Len(specifications) =>
                   returned'.value = specifications[1] /\ specifications[1].type = "invalid"
             /\ call[2] < Len(specifications) => returned'.value = specifications[call[2] + 1]

\* C32: in every state of the registry, GetOrInsert and GetIdOrInsert
\* return the existing specification of a registered type and change nothing,
\* append one specification with the registry's size as id for another type, and
\* Get of an id outside the registry returns `invalid`.
C32_Idempotent ==
    [][returned' # <<>> /\ returned'.call[1] # "Initialize" => IdempotentCall]_vars

\* the ids of the entries of a range
Ids(range) == {range[i][1] : i \in 1..Len(range)}

\* C33: the iteration yields the entries of the style range in their order and
\* then those entries of the definition range whose id the style range does not
\* hold, so every id of either range once, with the style property for an id of
\* both; while AtEnd() is false the iterator stands on an entry, and AtEnd() is
\* true only with both ranges exhausted and every id yielded.
C33_EveryIdOnceStyleFirst ==
    /\ ~at_end => it_style < Len(style) \/ it_definition < Len(definition)
    /\ LET rest == SelectSeq(definition, LAMBDA e : e[1] \notin Ids(style))
           all  == style \o rest
       IN /\ Len(yielded) <= Len(all)
          /\ yielded = SubSeq(all, 1, Len(yielded))
          /\ at_end <=> yielded = all /\ it_style = Len(style)
                           /\ it_definition = Len(definition)
          /\ ~at_end =>
                /\ Len(yielded) < Len(all)
                /\ Dereference(style, definition, It) = all[Len(yielded) + 1]
    /\ at_end =>
          /\ Ids(yielded) = Ids(style) \cup Ids(definition)
          /\ Len(yielded) = Cardinality(Ids(style) \cup Ids(definition))

\* the iteration over the style ids 2, 1 and the definition ids 1, 3, 2 has
\* ended: it gave 2 and 1 from the style and 3 from the definition
C33_Witness ==
    /\ at_end
    /\ style = << <<2, <<"style", 2>> >>, <<1, <<"style", 1>> >> >>
    /\ Len(definition) = 3 /\ definition[1][1] = 1 /\ definition[2][1] = 3
    /\ yielded = style \o << <<3, <<"definition", 3>> >> >>

\* C34: ReadCharacter reads parse_buffer[parse_buffer_pos] only below the
\* buffer's length, at the head of its loop and in both look-aheads, and the
\* buffer never holds more than the bytes one Read delivers plus one.
C34_ReadsInsideBuffer ==
    /\ pc \in {"star", "slash"} => parse_buffer_pos < Len(parse_buffer)
    /\ Len(parse_buffer) <= Min(chunk, READ_SIZE) + 1
    /\ parse_buffer_pos >= 0

\* the stream delivers one byte per read; the `/` of `/a` was put back in front
\* of the a the look-ahead had read: the buffer holds two characters
C34_Witness ==
    /\ pc = "returned" /\ chunk = 1
    /\ input = <<"/", "a">>
    /\ parse_buffer = <<"/", "a">> /\ parse_buffer_pos = 0
    /\ pre_token_str = <<"/">>

====
